---------------------------- MODULE Spec2Model ----------------------------
(***************************************************************************)
(* Model of backend/server.py: the facility store, the region-level        *)
(* medical-desert analysis, the FAISS retrieval service and the RAG chat   *)
(* endpoint with its multi-turn memory and best-effort MLflow logging.     *)
(***************************************************************************)
EXTENDS Integers, Sequences, FiniteSets, TLC

VARIABLES
    data_file,       \* data/ghana_facilities.json: the facility rows on disk
    db_facilities,   \* db.facilities: the stored facility documents, in insertion order
    faiss_index,     \* the global faiss_index: <<>> is None, <<vectors>> an IndexFlatIP
    facility_texts,  \* the global facility_texts
    facility_ids,    \* the global facility_ids
    search_out,      \* the last direct call of search_similar: [called, query, top_k, results]
    resp,            \* the last response of a facility or analysis endpoint
    db_chat_history, \* db.chat_history: the stored turns, in insertion order
    db_plans,        \* db.plans: the stored plans, in insertion order
    db_users,        \* db.users: the stored user records, in insertion order
    db_user_sessions, \* db.user_sessions: the stored login sessions, in insertion order
    reqs,            \* the chat, text2sql and planning requests in flight or answered, per slot
    mlflow,          \* MLflow's fluent state: the active-run stack, the runs created
    now,             \* the wall clock, in units no two requests arrive within
    uuid_next        \* the uuid4 values drawn so far

vars == <<data_file, db_facilities, faiss_index, facility_texts, facility_ids,
          search_out, resp, db_chat_history, db_plans, db_users, db_user_sessions,
          reqs, mlflow, now, uuid_next>>

\* what only the login, me and logout handlers read or write
auth_vars == <<db_users, db_user_sessions>>

\* what the facility, analysis and retrieval operations leave alone
chat_vars == <<db_chat_history, db_plans, auth_vars, reqs, mlflow, now, uuid_next>>

\* what a request handler never writes
index_vars == <<data_file, faiss_index, facility_texts, facility_ids>>

\* ------------------------------------------------------------------ bounds
MaxFacilities == 2          \* facility documents in a corpus of the desert analysis
MaxDocs == 4                \* facility documents in a corpus of the retrieval service
MaxTopK == 3                \* largest result count asked of search_similar directly

\* ------------------------------------------------------------- generic helpers
Min(a, b) == IF a < b THEN a ELSE b

\* Python's `x in list`
Contains(list, x) == \E i \in 1..Len(list) : list[i] = x

\* set(list)
ToSet(list) == {list[i] : i \in 1..Len(list)}

\* arg: the path parameter the response answers
NoResponse == [op |-> "none", status |-> 0, body |-> <<>>, arg |-> <<>>]

\* ------------------------------------------------------------ facility documents
\* The corpus universe: what enrich_dataset.py writes per facility, cut down to the
\* fields the handlers read.  Bed and staff values sit on the rule thresholds
\* (100/200 beds, 200/500 staff) once summed over one to three facilities.
Regions == {"Northern", "Ashanti"}
BedValues == {50, 100}
StaffValues == {100, 250}

\* (services, equipment, specialties) drawn from the per-type templates of the
\* generator: a clinic, one facility per single capability (CT and MRI apart), a district hospital
\* ("Basic Surgery", three specialties), a teaching hospital, and a metropolitan
\* hospital that lacks only the service "Surgery"
Capabilities ==
    { [services |-> <<"Outpatient", "Pharmacy">>, equipment |-> <<"Microscope">>,
       specialties |-> <<>>],
      [services |-> <<"Emergency", "Surgery">>, equipment |-> <<"X-Ray">>,
       specialties |-> <<"General Medicine">>],
      [services |-> <<"ICU">>, equipment |-> <<"Ventilators">>,
       specialties |-> <<"Internal Medicine">>],
      [services |-> <<"Laboratory", "Blood Bank">>, equipment |-> <<>>,
       specialties |-> <<>>],
      [services |-> <<"Radiology">>, equipment |-> <<"CT Scanner", "X-Ray">>,
       specialties |-> <<>>],
      [services |-> <<"Radiology">>, equipment |-> <<"X-Ray", "MRI">>,
       specialties |-> <<"Internal Medicine">>],
      [services |-> <<"Emergency", "Basic Surgery", "Laboratory">>, equipment |-> <<"X-Ray">>,
       specialties |-> <<"General Medicine", "Surgery", "Obstetrics">>],
      [services |-> <<"Emergency", "ICU", "Surgery", "Blood Bank">>,
       equipment |-> <<"MRI", "CT Scanner">>,
       specialties |-> <<"Surgery", "Internal Medicine", "Pediatrics">>],
      [services |-> <<"Emergency", "ICU", "Basic Surgery", "Blood Bank">>,
       equipment |-> <<"X-Ray", "MRI">>,
       specialties |-> <<"Internal Medicine", "Pediatrics", "Obstetrics">>] }

\* facility_id = f"GH-{i+1:04d}" for the i-th row of the dataset
FacilityIdOf(i) == <<"GH", i>>

FacilityNameOf(i) == <<"Test Clinic", i>>

\* A free text (a narrative, a user message) is modelled by the direction, one of
\* eight, that the embedding model gives it.
FreeText(topic) == [topic |-> topic]

\* the narratives the retrieval corpora use: along, near, across and against a query
Topics == {0, 1, 2, 4}

Clinic ==
    [services |-> <<"Outpatient", "Pharmacy">>, equipment |-> <<"Microscope">>,
     specialties |-> <<>>]

\* one row of the dataset, before its identifier is assigned
FacilityRows ==
    [region : Regions, beds : BedValues, staff_count : StaffValues, cap : Capabilities,
     topic : {0}]

\* the rows of the retrieval corpora: clinics that differ in their narrative
NarrativeRows ==
    [region : {"Northern"}, beds : {50}, staff_count : {100}, cap : {Clinic},
     topic : Topics]

Facility(i, row) ==
    [facility_id |-> FacilityIdOf(i), name |-> FacilityNameOf(i), region |-> row.region,
     beds |-> row.beds, staff_count |-> row.staff_count,
     specialties |-> row.cap.specialties, equipment |-> row.cap.equipment,
     services |-> row.cap.services, capabilities_text |-> FreeText(row.topic)]

\* the corpus of these rows: row i carries identifier GH-i
CorpusOf(rows) == [i \in 1..Len(rows) |-> Facility(i, rows[i])]

\* --------------------------------------------------- embeddings and the vector index
\* model.encode(..., normalize_embeddings=True): a unit vector, here its direction
EncodeText(text) == text.capabilities_text.topic

EncodeQuery(query) == query.topic

\* 100 * cos of the angle between two of the eight directions
Cos8 == <<100, 71, 0, -71, -100, -71, 0, 71>>

InnerProduct(u, v) == Cos8[((u - v) % 8) + 1]

\* the score FAISS pads with when the index holds fewer than k vectors
PadScore == -1000

\* the text chunk of a facility (the f-string of build_faiss_index)
FacilityText(fac) ==
    [name |-> fac.name, facility_id |-> fac.facility_id, region |-> fac.region,
     beds |-> fac.beds, staff_count |-> fac.staff_count, specialties |-> fac.specialties,
     equipment |-> fac.equipment, services |-> fac.services,
     capabilities_text |-> fac.capabilities_text]

IndexBuilt == faiss_index # <<>>

\* how IndexFlatIP orders two hits of equal score is not specified
TieBreaks == {"low", "high"}

Better(a, b, tie) ==
    \/ a.score > b.score
    \/ /\ a.score = b.score
       /\ IF tie = "low" THEN a.idx < b.idx ELSE a.idx > b.idx

\* faiss_index.search(query_vec, k): the k best (idx, score) by descending inner
\* product, idx counted from 0, padded with idx -1 when the index is smaller than k
FaissSearch(vectors, query_vec, k, tie) ==
    LET n == Len(vectors)
        hits == {[idx |-> i - 1, score |-> InnerProduct(query_vec, vectors[i])] : i \in 1..n}
        ranked == [p \in 1..n |->
                     CHOOSE h \in hits : Cardinality({g \in hits : Better(g, h, tie)}) = p - 1]
    IN  [p \in 1..k |-> IF p <= n THEN ranked[p] ELSE [idx |-> -1, score |-> PadScore]]

KeepHitNonNegative(hit, ntexts) == 0 <= hit.idx /\ hit.idx < ntexts /\ hit.score >= 0

\* `if 0 <= idx < len(facility_texts) and scores[0][i] > 0`
KeepHit(hit, ntexts) == 0 <= hit.idx /\ hit.idx < ntexts /\ hit.score > 0

RECURSIVE CollectResults(_, _, _)
CollectResults(hits, texts, ids) ==
    IF hits = <<>> THEN <<>>
    ELSE LET hit == Head(hits)
             rest == CollectResults(Tail(hits), texts, ids)
         IN  IF KeepHit(hit, Len(texts))
             THEN <<[facility_id |-> ids[hit.idx + 1], text |-> texts[hit.idx + 1],
                     score |-> hit.score]>> \o rest
             ELSE rest

\* search_similar(query, top_k)
SearchFromFile(index, texts, ids, query, top_k, tie) ==
    IF index = <<>>
    THEN [i \in 1..Len(data_file) |->
            [facility_id |-> data_file[i].facility_id,
             text |-> FacilityText(data_file[i]), score |-> 1]]
    ELSE CollectResults(FaissSearch(index[1], EncodeQuery(query), top_k, tie), texts, ids)

SearchSimilar(index, texts, ids, query, top_k, tie) ==
    IF index = <<>> THEN <<>>
    ELSE CollectResults(FaissSearch(index[1], EncodeQuery(query), top_k, tie), texts, ids)

\* ------------------------------------------------- GET /api/facilities/{facility_id}
\* find_one: the first stored document with this facility_id; None is <<>>, a
\* document d is <<d>>
FindOneFacility(fid) ==
    IF \E i \in 1..Len(db_facilities) : db_facilities[i].facility_id = fid
    THEN <<db_facilities[CHOOSE i \in 1..Len(db_facilities) :
                            /\ db_facilities[i].facility_id = fid
                            /\ \A j \in 1..(i - 1) : db_facilities[j].facility_id # fid]>>
    ELSE <<>>

GetFacilityOrEmpty(facility_id, facility) ==
    [op |-> "get_facility", status |-> 200, arg |-> facility_id,
     body |-> IF facility = <<>> THEN <<>> ELSE facility[1]]

\* raise HTTPException(404) when find_one gave None, else the document
GetFacilityResponse(facility_id, facility) ==
    IF facility = <<>>
    THEN [op |-> "get_facility", status |-> 404, arg |-> facility_id,
          body |-> "Facility not found"]
    ELSE [op |-> "get_facility", status |-> 200, arg |-> facility_id,
          body |-> facility[1]]

\* ------------------------------------------------- GET /api/analysis/medical-deserts
NewRegion(region) ==
    [region |-> region, facilities |-> <<>>, total_beds |-> 0, total_staff |-> 0,
     specialties |-> {}, has_surgery |-> FALSE, has_icu |-> FALSE,
     has_ct_mri |-> FALSE, has_blood_bank |-> FALSE, desert_score |-> 0]

HasSurgeryInSpecialties(fac) == Contains(fac.specialties, "Surgery")

HasSurgery(fac) == Contains(fac.services, "Surgery")

HasIcu(fac) == Contains(fac.services, "ICU")

HasCtMri(fac) == \E e \in {"CT Scanner", "MRI"} : Contains(fac.equipment, e)

HasBloodBank(fac) == Contains(fac.services, "Blood Bank")

\* the body of the loop over the facilities, for the region record r of fac
AddFacility(r, fac) ==
    [r EXCEPT !.facilities = Append(@, fac.name),
              !.total_beds = @ + fac.beds,
              !.total_staff = @ + fac.staff_count,
              !.specialties = @ \cup ToSet(fac.specialties),
              !.has_surgery = IF HasSurgery(fac) THEN TRUE ELSE @,
              !.has_icu = IF HasIcu(fac) THEN TRUE ELSE @,
              !.has_ct_mri = IF HasCtMri(fac) THEN TRUE ELSE @,
              !.has_blood_bank = IF HasBloodBank(fac) THEN TRUE ELSE @]

\* position of the region in the dict (kept in insertion order), 0 when absent
RegionIndex(regions, region) ==
    IF \E i \in 1..Len(regions) : regions[i].region = region
    THEN CHOOSE i \in 1..Len(regions) : regions[i].region = region
    ELSE 0

RECURSIVE AggregateRegions(_, _)
AggregateRegions(facilities, regions) ==
    IF facilities = <<>> THEN regions
    ELSE LET fac == Head(facilities)
             known == RegionIndex(regions, fac.region)
             regs == IF known = 0 THEN Append(regions, NewRegion(fac.region)) ELSE regions
             at == IF known = 0 THEN Len(regs) ELSE known
         IN  AggregateRegions(Tail(facilities), [regs EXCEPT ![at] = AddFacility(@, fac)])

BedsPenalty(total_beds) ==
    IF total_beds < 100 THEN 30 ELSE IF total_beds < 200 THEN 15 ELSE 0

StaffPenalty(total_staff) ==
    IF total_staff < 200 THEN 20 ELSE IF total_staff < 500 THEN 10 ELSE 0

SurgeryPenalty(has_surgery) == IF ~has_surgery THEN 20 ELSE 0

IcuPenalty(has_icu) == IF ~has_icu THEN 15 ELSE 0

CtMriPenalty(has_ct_mri) == IF ~has_ct_mri THEN 10 ELSE 0

BloodBankPenalty(has_blood_bank) == IF ~has_blood_bank THEN 5 ELSE 0

NoSpecialtiesPenalty(data) == IF data.specialties = {} THEN 10 ELSE 0

SpecialtiesPenalty(data) == IF Cardinality(data.specialties) < 3 THEN 10 ELSE 0

\* the local `score` after the rule table
RuleScore(data) ==
    BedsPenalty(data.total_beds) + StaffPenalty(data.total_staff)
    + SurgeryPenalty(data.has_surgery) + IcuPenalty(data.has_icu)
    + CtMriPenalty(data.has_ct_mri) + BloodBankPenalty(data.has_blood_bank)
    + SpecialtiesPenalty(data)

Unclamped(score) == score

ClampScore(score) == Min(score, 100)

SeverityStrict(score) ==
    IF score > 60 THEN "Critical" ELSE IF score > 40 THEN "Moderate" ELSE "Adequate"

Severity(score) ==
    IF score >= 60 THEN "Critical" ELSE IF score >= 40 THEN "Moderate" ELSE "Adequate"

ScoreRegion(data) ==
    LET score == RuleScore(data)
    IN  [region |-> data.region, facilities |-> data.facilities,
         total_beds |-> data.total_beds, total_staff |-> data.total_staff,
         specialties |-> data.specialties,
         has_surgery |-> data.has_surgery, has_icu |-> data.has_icu,
         has_ct_mri |-> data.has_ct_mri, has_blood_bank |-> data.has_blood_bank,
         desert_score |-> ClampScore(score),
         is_desert |-> (score >= 40),
         severity |-> Severity(score)]

\* list.sort(key=desert_score, reverse=True): stable, equal scores keep their order
RECURSIVE InsertByScore(_, _)
InsertByScore(sorted, d) ==
    IF sorted = <<>> THEN <<d>>
    ELSE IF Head(sorted).desert_score >= d.desert_score
         THEN <<Head(sorted)>> \o InsertByScore(Tail(sorted), d)
         ELSE <<d>> \o sorted

RECURSIVE SortByScoreDesc(_)
SortByScoreDesc(deserts) ==
    IF deserts = <<>> THEN <<>>
    ELSE InsertByScore(SortByScoreDesc(SubSeq(deserts, 1, Len(deserts) - 1)),
                       deserts[Len(deserts)])

MedicalDeserts(facilities) ==
    LET regions == AggregateRegions(facilities, <<>>)
    IN  SortByScoreDesc([i \in 1..Len(regions) |-> ScoreRegion(regions[i])])

\* ------------------------------------------------------- MLflow, best effort
\* The fluent API keeps one process-wide stack of active runs.  start_run raises
\* while a run is active; a log_* call with no active run starts one; end_run
\* pops the stack before it tells the backend.
NoRun == 0

MlStartRun(ml) ==
    IF ml.active # <<>>
    THEN [raised |-> TRUE, ml |-> ml, run_id |-> NoRun]
    ELSE [raised |-> FALSE, run_id |-> ml.created + 1,
          ml |-> [active |-> <<ml.created + 1>>, created |-> ml.created + 1]]

\* _get_or_start_run inside mlflow.log_param(s) / log_metric(s) / log_artifact
MlEnsureRun(ml) == IF ml.active = <<>> THEN MlStartRun(ml).ml ELSE ml

MlEndRun(ml) ==
    IF ml.active = <<>> THEN ml
    ELSE [ml EXCEPT !.active = SubSeq(@, 1, Len(@) - 1)]

\* What one guarded logging block did: "ok", or it raised before MLflow changed
\* anything ("raise_early"), or after ("raise_late").
LogOutcomes == {"ok", "raise_early", "raise_late"}

LogFailed(outcome) == outcome # "ok"

\* lines 522-532: start_mlflow_run, run.info.run_id, two log_param
StartBlock(ml, outcome) ==
    IF outcome = "raise_early" THEN [ml |-> ml, run_id |-> NoRun, failed |-> TRUE]
    ELSE LET r == MlStartRun(ml)
         IN  [ml |-> r.ml, run_id |-> r.run_id, failed |-> r.raised \/ LogFailed(outcome)]

\* log_agent_step and the log_metric calls after it
StepBlock(ml, outcome) ==
    IF outcome = "raise_early" THEN [ml |-> ml, failed |-> TRUE]
    ELSE [ml |-> MlEnsureRun(ml), failed |-> LogFailed(outcome)]

\* lines 679-689: three log_metric, end_run; on any exception end_run again
EndBlock(ml, outcome) ==
    IF outcome = "ok" THEN [ml |-> MlEndRun(MlEnsureRun(ml)), failed |-> FALSE]
    ELSE IF outcome = "raise_early" THEN [ml |-> MlEndRun(ml), failed |-> TRUE]
    ELSE [ml |-> MlEndRun(MlEndRun(MlEnsureRun(ml))), failed |-> TRUE]

LoggingEscapes(failed) == failed

\* `except Exception: pass` around every logging block: does its failure leave the handler
LoggingRaises(failed) == FALSE

\* ------------------------------------------------------------- POST /api/chat
Slots == {1, 2}

\* session ids: none given, the empty string, one a client supplies, one generated
NoSession == <<"none", 0>>
EmptySession == <<"empty", 0>>
ClientSession(i) == <<"client", i>>

\* f"chat_{uuid.uuid4().hex[:8]}"
GeneratedSession(u) == <<"chat", u>>

SessionGivenNever(session_id) == FALSE

\* `req.session_id or ...`: None and "" are both falsy
SessionGiven(session_id) == session_id[1] \notin {"none", "empty"}

HistoryWindow == 5          \* to_list(5)
ChatTopK == 5               \* search_similar(req.message, top_k=5)

\* a step's detail is a template and the values it interpolates: the message,
\* the number of documents, the number of turns (the latencies are left out)
ReasoningStep(step, action, detail, query, n_docs, n_turns, data_used) ==
    [step |-> step, action |-> action, detail |-> detail, query |-> query,
     n_docs |-> n_docs, n_turns |-> n_turns, data_used |-> data_used]

NoQuery == FreeText(0)

QueryAnalysisStep(message) ==
    ReasoningStep(1, "Query Analysis", "Analyzing user query", message, 0, 0,
                  <<"User input">>)

MemoryStep(history_docs) ==
    IF history_docs # <<>>
    THEN ReasoningStep(2, "Memory Retrieval", "Loaded previous conversation turns for context",
                       NoQuery, 0, Len(history_docs), <<"chat history messages">>)
    ELSE ReasoningStep(2, "Memory Retrieval", "No previous conversation history (new session)",
                       NoQuery, 0, 0, <<"None">>)

SearchStep(search_results) ==
    ReasoningStep(3, "Semantic Search (FAISS + sentence-transformers)",
                  "Retrieved documents using sentence-transformers embeddings",
                  NoQuery, Len(search_results), 0,
                  [i \in 1..Len(search_results) |-> search_results[i].facility_id])

AssemblyStepMisnumbered(search_results, history_docs) ==
    ReasoningStep(3, "Context Assembly",
                  "Combined retrieved docs + conversation turns + DB summary",
                  NoQuery, Len(search_results), Len(history_docs),
                  <<"FAISS results + memory + summary">>)

AssemblyStep(search_results, history_docs) ==
    ReasoningStep(4, "Context Assembly",
                  "Combined retrieved docs + conversation turns + DB summary",
                  NoQuery, Len(search_results), Len(history_docs),
                  <<"FAISS results + memory + summary">>)

GenerationStep(n_docs, n_turns) ==
    ReasoningStep(5, "LLM Generation (Gemini 2.5 Flash)",
                  "Generated response using context documents + conversation memory",
                  NoQuery, n_docs, n_turns, <<"System prompt + docs + memory turns">>)

GenerationErrorStep ==
    ReasoningStep(5, "LLM Generation - Error", "Error", NoQuery, 0, 0, <<"Fallback response">>)

\* what the generation endpoint answers: any text, here one token
LlmAnswer == [kind |-> "llm", found |-> 0]

FallbackWithoutCount(found) == [kind |-> "fallback", found |-> 0]

\* f"Error processing query: {e}. Found {len(search_results)} relevant records."
FallbackText(found) == [kind |-> "fallback", found |-> found]

NoText == [kind |-> "none", found |-> 0]

\* result["text"][:200] + "...": the excerpt of a passage keeps its start
Excerpt(text) == [facility_id |-> text.facility_id, name |-> text.name]

Citation(result) ==
    [source_id |-> result.facility_id, text_excerpt |-> Excerpt(result.text),
     relevance_score |-> result.score]

CitationsOfFirstThree(search_results) ==
    [i \in 1..Min(3, Len(search_results)) |-> Citation(search_results[i])]

Citations(search_results) ==
    [i \in 1..Len(search_results) |-> Citation(search_results[i])]

Reverse(seq) == [i \in 1..Len(seq) |-> seq[Len(seq) + 1 - i]]

\* find({"session_id": s}).sort("created_at", -1).to_list(limit): how the store orders
\* turns of equal created_at is not specified ("low": insertion order, "high": reversed)
FindRecentTurns(history, session_id, limit, tie) ==
    LET idxs == {i \in 1..Len(history) : history[i].session_id = session_id}
        Before(i, j) ==
            \/ history[i].created_at > history[j].created_at
            \/ /\ history[i].created_at = history[j].created_at
               /\ IF tie = "low" THEN i < j ELSE i > j
        ranked == [p \in 1..Cardinality(idxs) |->
                      CHOOSE i \in idxs : Cardinality({j \in idxs : Before(j, i)}) = p - 1]
    IN  [p \in 1..Min(limit, Cardinality(idxs)) |-> history[ranked[p]]]

LoadHistoryOldestFirst(history, session_id, tie) ==
    LET mine == SelectSeq(history, LAMBDA d : d.session_id = session_id)
    IN  SubSeq(mine, 1, Min(HistoryWindow, Len(mine)))

\* lines 547-550: the five most recent turns of the session, oldest first
LoadHistory(history, session_id, tie) ==
    Reverse(FindRecentTurns(history, session_id, HistoryWindow, tie))

HistoryFetchLimit == 100    \* to_list(100)

FetchHistoryNewestFirst(history, session_id, tie) ==
    FindRecentTurns(history, session_id, HistoryFetchLimit, tie)

\* lines 702-704: find({"session_id": s}).sort("created_at", 1).to_list(100)
FetchHistory(history, session_id, tie) ==
    LET idxs == {i \in 1..Len(history) : history[i].session_id = session_id}
        Before(i, j) ==
            \/ history[i].created_at < history[j].created_at
            \/ /\ history[i].created_at = history[j].created_at
               /\ IF tie = "low" THEN i < j ELSE i > j
        ranked == [p \in 1..Cardinality(idxs) |->
                      CHOOSE i \in idxs : Cardinality({j \in idxs : Before(j, i)}) = p - 1]
    IN  [p \in 1..Min(HistoryFetchLimit, Cardinality(idxs)) |-> history[ranked[p]]]

\* conversation_context: "User: ... Assistant: ...[:300]" per loaded turn
ConversationContext(history_docs) ==
    [i \in 1..Len(history_docs) |->
        [user |-> history_docs[i].message, assistant |-> history_docs[i].response]]

\* ------------------------------------------------------------ login sessions
\* a session token: none presented, st_<uuid4>, or one the OAuth service supplies
NoToken == <<"none", 0>>
GeneratedToken(u) == <<"st", u>>

\* user_id = f"user_{uuid.uuid4().hex[:12]}"
NoUserId == <<"none", 0>>
GeneratedUserId(u) == <<"user", u>>

\* find_one gave None
NoUser == [user_id |-> NoUserId, email |-> "none", name |-> "none", created_at |-> 0]

\* what the OAuth service answers for a session id: the status, and with 200 the
\* email, the name (the picture is handled as the name is) and maybe a token
NoUserData == [status |-> 0, email |-> "none", name |-> "none", session_token |-> NoToken]

\* timedelta(days=7), and max_age of the cookie, in ticks of the clock
SessionLifetime == 7

\* the JSON object the translation returns; an absent key is an empty tuple
NoQuerySpec ==
    [filter |-> <<>>, projection |-> <<>>, sort |-> <<>>, limit |-> <<>>,
     explanation |-> "none"]

IdleRequest ==
    [kind |-> "none", pc |-> "idle", message |-> FreeText(0), session_in |-> NoSession,
     session_id |-> NoSession, run_id |-> NoRun, reasoning_steps |-> <<>>,
     citations |-> <<>>, history_docs |-> <<>>, conversation_context |-> <<>>,
     search_results |-> <<>>, index_built |-> FALSE, facility_summary |-> <<0, 0>>,
     response_text |-> NoText, created_at |-> 0, llm |-> "none", log_failed |-> FALSE,
     query_spec |-> NoQuerySpec, tie |-> "low", results |-> <<>>, status |-> 0,
     llm_calls |-> 0, plan_region |-> <<>>, plan_id |-> 0,
     cookie |-> NoToken, bearer |-> NoToken, token |-> NoToken,
     user_data |-> NoUserData, user_id |-> NoUserId, user |-> NoUser]

SlotFree(slot) == reqs[slot].pc \in {"idle", "done"}

\* an exception nothing catches: FastAPI answers 500
Abort(r) == [r EXCEPT !.pc = "done", !.status = 500, !.log_failed = TRUE]

\* lines 516-544: session id, MLflow run, step 1; ends awaiting the history query
ChatBegin(slot, session_in, message, outcomes) ==
    /\ SlotFree(slot)
    /\ \E o1 \in outcomes, o2 \in outcomes :
         LET generated == ~SessionGiven(session_in)
             session_id == IF generated THEN GeneratedSession(uuid_next + 1) ELSE session_in
             b1 == StartBlock(mlflow, o1)
             b2 == StepBlock(b1.ml, o2)
             escaped1 == LoggingRaises(b1.failed)
             escaped == escaped1 \/ LoggingRaises(b2.failed)
             r == [IdleRequest EXCEPT !.kind = "chat", !.pc = "history",
                                      !.message = message, !.session_in = session_in,
                                      !.session_id = session_id, !.run_id = b1.run_id,
                                      !.reasoning_steps = <<QueryAnalysisStep(message)>>,
                                      !.log_failed = b1.failed \/ b2.failed]
         IN  /\ reqs' = [reqs EXCEPT ![slot] = IF escaped THEN Abort(r) ELSE r]
             /\ mlflow' = IF escaped1 THEN b1.ml ELSE b2.ml
             /\ uuid_next' = IF generated THEN uuid_next + 1 ELSE uuid_next
    /\ now' = now + 1
    /\ UNCHANGED <<index_vars, db_facilities, db_plans, auth_vars, search_out, resp, db_chat_history>>

\* the turn is stored as soon as the history query answers, and the history read
\* after that
ChatLoadHistoryAfterInsert(slot, outcomes) ==
    /\ reqs[slot].kind = "chat"
    /\ reqs[slot].pc = "history"
    /\ \E tie \in TieBreaks, ftie \in TieBreaks, o1 \in outcomes, o2 \in outcomes :
         LET r0 == reqs[slot]
             stored == Append(db_chat_history,
                              [session_id |-> r0.session_id, message |-> r0.message,
                               response |-> r0.response_text, citations |-> r0.citations,
                               reasoning_steps |-> r0.reasoning_steps,
                               mlflow_run_id |-> r0.run_id, created_at |-> now])
             history_docs == LoadHistory(stored, r0.session_id, tie)
             b1 == IF history_docs # <<>> THEN StepBlock(mlflow, o1)
                   ELSE [ml |-> mlflow, failed |-> FALSE]
             search_results == SearchSimilar(faiss_index, facility_texts, facility_ids,
                                             r0.message, ChatTopK, ftie)
             b2 == StepBlock(b1.ml, o2)
             r == [r0 EXCEPT !.pc = "facilities",
                             !.history_docs = history_docs,
                             !.conversation_context = ConversationContext(history_docs),
                             !.search_results = search_results,
                             !.index_built = IndexBuilt,
                             !.citations = Citations(search_results),
                             !.reasoning_steps = @ \o <<MemoryStep(history_docs),
                                                        SearchStep(search_results)>>,
                             !.log_failed = @ \/ b1.failed \/ b2.failed]
         IN  /\ reqs' = [reqs EXCEPT ![slot] = r]
             /\ mlflow' = b2.ml
             /\ db_chat_history' = stored
    /\ UNCHANGED <<index_vars, db_facilities, db_plans, auth_vars, search_out, resp, now, uuid_next>>

\* lines 547-599: the history query answers; step 2, search_similar, step 3, the
\* citations; ends awaiting the facility query
ChatLoadHistory(slot, outcomes) ==
    /\ reqs[slot].kind = "chat"
    /\ reqs[slot].pc = "history"
    /\ \E tie \in TieBreaks, ftie \in TieBreaks, o1 \in outcomes, o2 \in outcomes :
         LET r0 == reqs[slot]
             history_docs == LoadHistory(db_chat_history, r0.session_id, tie)
             b1 == IF history_docs # <<>> THEN StepBlock(mlflow, o1)
                   ELSE [ml |-> mlflow, failed |-> FALSE]
             search_results == SearchSimilar(faiss_index, facility_texts, facility_ids,
                                             r0.message, ChatTopK, ftie)
             b2 == StepBlock(b1.ml, o2)
             escaped1 == LoggingRaises(b1.failed)
             escaped == escaped1 \/ LoggingRaises(b2.failed)
             r == [r0 EXCEPT !.pc = "facilities",
                             !.history_docs = history_docs,
                             !.conversation_context = ConversationContext(history_docs),
                             !.search_results = search_results,
                             !.index_built = IndexBuilt,
                             !.citations = Citations(search_results),
                             !.reasoning_steps = @ \o <<MemoryStep(history_docs),
                                                        SearchStep(search_results)>>,
                             !.log_failed = @ \/ b1.failed \/ b2.failed]
         IN  /\ reqs' = [reqs EXCEPT ![slot] = IF escaped THEN Abort(r) ELSE r]
             /\ mlflow' = IF escaped1 THEN b1.ml ELSE b2.ml
    /\ UNCHANGED <<index_vars, db_facilities, db_plans, auth_vars, search_out, resp, db_chat_history, now,
                   uuid_next>>

\* lines 602-645: the facility query answers; step 4, the system prompt; ends
\* awaiting the generation call
ChatAssemble(slot) ==
    /\ reqs[slot].kind = "chat"
    /\ reqs[slot].pc = "facilities"
    /\ LET r0 == reqs[slot]
           regions == {db_facilities[i].region : i \in 1..Len(db_facilities)}
       IN  reqs' = [reqs EXCEPT ![slot] =
                      [r0 EXCEPT !.pc = "generate", !.llm_calls = @ + 1,
                                 !.facility_summary = <<Len(db_facilities), Cardinality(regions)>>,
                                 !.reasoning_steps =
                                     Append(@, AssemblyStep(r0.search_results, r0.history_docs))]]
    /\ UNCHANGED <<index_vars, db_facilities, db_plans, auth_vars, search_out, resp, db_chat_history, mlflow,
                   now, uuid_next>>

ClockReads == {0, 1}

\* a failed generation call is sent again, up to three times in all
ChatGenerateRetrying(slot, answers, outcomes, reads) ==
    /\ reqs[slot].kind = "chat"
    /\ reqs[slot].pc = "generate"
    /\ \E answered \in answers, o \in outcomes, tick \in reads :
         LET r0 == reqs[slot]
             again == ~answered /\ r0.llm_calls < 3
             b == IF answered THEN StepBlock(mlflow, o) ELSE [ml |-> mlflow, failed |-> FALSE]
             r == [r0 EXCEPT !.pc = "persist",
                             !.llm = IF answered THEN "ok" ELSE "failed",
                             !.response_text = IF answered THEN LlmAnswer
                                               ELSE FallbackText(Len(r0.search_results)),
                             !.reasoning_steps =
                                 Append(@, IF answered
                                           THEN GenerationStep(Len(r0.search_results),
                                                               Len(r0.history_docs))
                                           ELSE GenerationErrorStep),
                             !.created_at = now + tick,
                             !.log_failed = @ \/ b.failed]
         IN  /\ reqs' = [reqs EXCEPT ![slot] =
                            IF again THEN [r0 EXCEPT !.llm_calls = @ + 1] ELSE r]
             /\ mlflow' = b.ml
             /\ now' = now + tick
    /\ UNCHANGED <<index_vars, db_facilities, db_plans, auth_vars, search_out, resp, db_chat_history, uuid_next>>

\* lines 645-676: the generation call answers or raises; step 5; the turn is built
\* with created_at = now(); ends awaiting insert_one
ChatGenerate(slot, answers, outcomes, reads) ==
    /\ reqs[slot].kind = "chat"
    /\ reqs[slot].pc = "generate"
    /\ \E answered \in answers, o \in outcomes, tick \in reads :
         LET r0 == reqs[slot]
             b == IF answered THEN StepBlock(mlflow, o) ELSE [ml |-> mlflow, failed |-> FALSE]
             escaped == LoggingRaises(b.failed)
             r == [r0 EXCEPT !.pc = "persist",
                             !.llm = IF answered THEN "ok" ELSE "failed",
                             !.response_text = IF answered THEN LlmAnswer
                                               ELSE FallbackText(Len(r0.search_results)),
                             !.reasoning_steps =
                                 Append(@, IF answered
                                           THEN GenerationStep(Len(r0.search_results),
                                                               Len(r0.history_docs))
                                           ELSE GenerationErrorStep),
                             !.created_at = now + tick,
                             !.log_failed = @ \/ b.failed]
         IN  /\ reqs' = [reqs EXCEPT ![slot] = IF escaped THEN Abort(r) ELSE r]
             /\ mlflow' = b.ml
             /\ now' = now + tick
    /\ UNCHANGED <<index_vars, db_facilities, db_plans, auth_vars, search_out, resp, db_chat_history, uuid_next>>

Turn(r) ==
    [session_id |-> r.session_id, message |-> r.message, response |-> r.response_text,
     citations |-> r.citations, reasoning_steps |-> r.reasoning_steps,
     mlflow_run_id |-> r.run_id, created_at |-> r.created_at]

\* replace_one({"session_id": ...}, turn, upsert=True) in place of insert_one
ChatPersistUpsert(slot, outcomes) ==
    /\ reqs[slot].kind = "chat"
    /\ reqs[slot].pc = "persist"
    /\ \E o \in outcomes :
         LET r0 == reqs[slot]
             b == EndBlock(mlflow, o)
             escaped == LoggingRaises(b.failed)
             r == [r0 EXCEPT !.pc = "done", !.status = 200, !.log_failed = @ \/ b.failed]
         IN  /\ reqs' = [reqs EXCEPT ![slot] = IF escaped THEN Abort(r) ELSE r]
             /\ mlflow' = b.ml
    /\ LET mine == {i \in 1..Len(db_chat_history) :
                       db_chat_history[i].session_id = reqs[slot].session_id}
       IN  db_chat_history' =
               IF mine = {} THEN Append(db_chat_history, Turn(reqs[slot]))
               ELSE [db_chat_history EXCEPT ![CHOOSE i \in mine : \A j \in mine : i <= j] =
                        Turn(reqs[slot])]
    /\ UNCHANGED <<index_vars, db_facilities, db_plans, auth_vars, search_out, resp, now, uuid_next>>

\* lines 668-697: insert_one stores the turn; the run is ended; the response
ChatPersist(slot, outcomes) ==
    /\ reqs[slot].kind = "chat"
    /\ reqs[slot].pc = "persist"
    /\ \E o \in outcomes :
         LET r0 == reqs[slot]
             b == EndBlock(mlflow, o)
             escaped == LoggingRaises(b.failed)
             r == [r0 EXCEPT !.pc = "done", !.status = 200, !.log_failed = @ \/ b.failed]
         IN  /\ reqs' = [reqs EXCEPT ![slot] = IF escaped THEN Abort(r) ELSE r]
             /\ mlflow' = b.ml
    /\ db_chat_history' = Append(db_chat_history, Turn(reqs[slot]))
    /\ UNCHANGED <<index_vars, db_facilities, db_plans, auth_vars, search_out, resp, now, uuid_next>>

\* the ChatResponse of an answered request
ChatResponse(r) ==
    [response |-> r.response_text, citations |-> r.citations,
     reasoning_steps |-> r.reasoning_steps, session_id |-> r.session_id,
     mlflow_run_id |-> r.run_id]

\* ------------------------------------------- GET /api/chat/history/{session_id}
GetChatHistory(session_id) ==
    /\ \E tie \in TieBreaks :
          resp' = [op |-> "get_chat_history", status |-> 200, arg |-> session_id,
                   body |-> FetchHistory(db_chat_history, session_id, tie)]
    /\ UNCHANGED <<index_vars, db_facilities, search_out, chat_vars>>

\* --------------------------------------------------------- POST /api/text2sql
T2sDefaultLimit == 20       \* query_spec.get("limit", 20)
T2sMaxLimit == 50           \* min(..., 50)

\* find(filter, projection): the filters used here select one region, or everything
Matches(doc, filter) == filter = <<>> \/ doc.region = filter[1]

\* a projection that names fields returns those fields; {"_id": 0} alone returns all
Project(doc, projection) ==
    IF projection = <<>> THEN doc ELSE [f \in ToSet(projection) |-> doc[f]]

\* cursor.sort([("beds", -1)]): documents of equal beds come in an order the store picks
SortByBedsDesc(docs, tie) ==
    LET idxs == 1..Len(docs)
        Before(i, j) ==
            \/ docs[i].beds > docs[j].beds
            \/ /\ docs[i].beds = docs[j].beds
               /\ IF tie = "low" THEN i < j ELSE i > j
    IN  [p \in idxs |-> docs[CHOOSE i \in idxs : Cardinality({j \in idxs : Before(j, i)}) = p - 1]]

\* the limit of the specification is taken as it comes
EffectiveLimitUncapped(query_spec) ==
    IF query_spec.limit = <<>> THEN T2sDefaultLimit ELSE query_spec.limit[1]

\* limit = min(query_spec.get("limit", 20), 50)
EffectiveLimit(query_spec) ==
    Min(IF query_spec.limit = <<>> THEN T2sDefaultLimit ELSE query_spec.limit[1], T2sMaxLimit)

\* lines 738-741
RunQuery(facilities, query_spec, tie) ==
    LET found == SelectSeq(facilities, LAMBDA d : Matches(d, query_spec.filter))
        sorted == IF query_spec.sort # <<>> THEN SortByBedsDesc(found, tie) ELSE found
        listed == SubSeq(sorted, 1, Min(EffectiveLimit(query_spec), Len(sorted)))
    IN  [i \in 1..Len(listed) |-> Project(listed[i], query_spec.projection)]

Text2SQLResponse(r) ==
    [natural_query |-> r.message, mongo_query |-> r.query_spec.filter,
     results |-> r.results, result_count |-> Len(r.results),
     explanation |-> r.query_spec.explanation]

\* lines 715-727: the MLflow run is started; ends awaiting the translation
T2sBegin(slot, query, outcomes) ==
    /\ SlotFree(slot)
    /\ \E o \in outcomes :
         LET b == StartBlock(mlflow, o)
             escaped == LoggingRaises(b.failed)
             r == [IdleRequest EXCEPT !.kind = "text2sql", !.pc = "translate",
                                      !.message = query, !.llm_calls = @ + 1,
                                      !.run_id = b.run_id, !.log_failed = b.failed]
         IN  /\ reqs' = [reqs EXCEPT ![slot] = IF escaped THEN Abort(r) ELSE r]
             /\ mlflow' = b.ml
    /\ now' = now + 1
    /\ UNCHANGED <<index_vars, db_facilities, db_plans, auth_vars, search_out, resp, db_chat_history, uuid_next>>

\* what the generation call answers: a JSON object, a JSON array or prose, bare or
\* inside a code fence opened by ```json, by ``` or by another tag
LlmReplies(specs) ==
    [fence : {"none", "json", "bare", "other"}, body : {"object"}, query_spec : specs]
    \cup [fence : {"none", "json", "bare", "other"}, body : {"array", "prose"},
          query_spec : {NoQuerySpec}]

\* lines 267-275: the text between the first two fences, without a leading "json",
\* is given to json.loads; a tag other than json stays in front of the text
ParseReply(reply) ==
    IF reply.fence = "other" \/ reply.body = "prose"
    THEN [kind |-> "bad_json", query_spec |-> NoQuerySpec]
    ELSE IF reply.body = "array"
    THEN [kind |-> "not_object", query_spec |-> NoQuerySpec]
    ELSE [kind |-> "ok", query_spec |-> reply.query_spec]

\* what text_to_mongo_query does: a query object, a JSON value that is no object
\* (query_spec.get then raises), text that is not JSON, or the generation call raising
Translations(specs) ==
    {ParseReply(reply) : reply \in LlmReplies(specs)}
        \cup {[kind |-> "error", query_spec |-> NoQuerySpec]}

\* the detail of the HTTPException of lines 767 and 773
RephraseDetail == [kind |-> "rephrase", found |-> 0]
Text2SqlErrorDetail == [kind |-> "text2sql_error", found |-> 0]

\* text that is not JSON is taken for the empty query object
T2sTranslateLenient(slot, specs) ==
    /\ reqs[slot].kind = "text2sql"
    /\ reqs[slot].pc = "translate"
    /\ \E t \in Translations(specs) :
         IF t.kind \in {"ok", "bad_json"}
         THEN /\ reqs' = [reqs EXCEPT ![slot] =
                            [@ EXCEPT !.pc = "execute", !.llm = t.kind,
                                      !.query_spec = t.query_spec]]
              /\ UNCHANGED mlflow
         ELSE /\ reqs' = [reqs EXCEPT ![slot] =
                            [@ EXCEPT !.pc = "done", !.llm = t.kind, !.status = 500,
                                      !.response_text = Text2SqlErrorDetail]]
              /\ mlflow' = MlEndRun(mlflow)
    /\ UNCHANGED <<index_vars, db_facilities, db_plans, auth_vars, search_out, resp, db_chat_history, now,
                   uuid_next>>

\* lines 727-741 and 762-773: the translation answers; the query is sent to the
\* store, or the handler ends the run and answers 422 / 500
T2sTranslate(slot, specs) ==
    /\ reqs[slot].kind = "text2sql"
    /\ reqs[slot].pc = "translate"
    /\ \E t \in Translations(specs) :
         IF t.kind = "ok"
         THEN /\ reqs' = [reqs EXCEPT ![slot] =
                            [@ EXCEPT !.pc = "execute", !.llm = "ok",
                                      !.query_spec = t.query_spec]]
              /\ UNCHANGED mlflow
         ELSE /\ reqs' = [reqs EXCEPT ![slot] =
                            [@ EXCEPT !.pc = "done", !.llm = t.kind,
                                      !.status = IF t.kind = "bad_json" THEN 422 ELSE 500,
                                      !.response_text = IF t.kind = "bad_json"
                                                        THEN RephraseDetail
                                                        ELSE Text2SqlErrorDetail]]
              /\ mlflow' = MlEndRun(mlflow)
    /\ UNCHANGED <<index_vars, db_facilities, db_plans, auth_vars, search_out, resp, db_chat_history, now,
                   uuid_next>>

\* lines 741-760: the store answers; metrics are logged, the run ended; the response
T2sExecute(slot, outcomes) ==
    /\ reqs[slot].kind = "text2sql"
    /\ reqs[slot].pc = "execute"
    /\ \E tie \in TieBreaks, o \in outcomes :
         LET r0 == reqs[slot]
             b == EndBlock(mlflow, o)
             escaped == LoggingRaises(b.failed)
             r == [r0 EXCEPT !.pc = "done", !.status = 200, !.tie = tie,
                             !.results = RunQuery(db_facilities, r0.query_spec, tie),
                             !.log_failed = @ \/ b.failed]
         IN  IF EffectiveLimit(r0.query_spec) < 0
             THEN \* to_list raises ValueError for a negative length: line 768
                  /\ reqs' = [reqs EXCEPT ![slot] =
                                [r0 EXCEPT !.pc = "done", !.status = 500,
                                           !.response_text = Text2SqlErrorDetail]]
                  /\ mlflow' = MlEndRun(mlflow)
             ELSE /\ reqs' = [reqs EXCEPT ![slot] = IF escaped THEN Abort(r) ELSE r]
                  /\ mlflow' = b.ml
    /\ UNCHANGED <<index_vars, db_facilities, db_plans, auth_vars, search_out, resp, db_chat_history, now,
                   uuid_next>>

\* ------------------------------------------------------- the store failing
\* lines 547, 602 and 668: a query or the insert of chat_endpoint raises; nothing
\* catches it, FastAPI answers 500, and no statement after the await runs
ChatStoreRaises(slot) ==
    /\ reqs[slot].kind = "chat"
    /\ reqs[slot].pc \in {"history", "facilities", "persist"}
    /\ reqs' = [reqs EXCEPT ![slot] = [@ EXCEPT !.pc = "done", !.status = 500]]
    /\ UNCHANGED <<index_vars, db_facilities, db_plans, auth_vars, search_out, resp,
                   db_chat_history, mlflow, now, uuid_next>>

\* line 741: the query of text2sql_endpoint raises inside the outer try; lines
\* 768-773 end the run and answer 500
T2sStoreRaises(slot) ==
    /\ reqs[slot].kind = "text2sql"
    /\ reqs[slot].pc = "execute"
    /\ reqs' = [reqs EXCEPT ![slot] =
                  [@ EXCEPT !.pc = "done", !.status = 500,
                            !.response_text = Text2SqlErrorDetail]]
    /\ mlflow' = MlEndRun(mlflow)
    /\ UNCHANGED <<index_vars, db_facilities, db_plans, auth_vars, search_out, resp,
                   db_chat_history, now, uuid_next>>

\* ------------------------------------------------------ POST /api/planning/generate
\* {"region": {"$regex": req.region, "$options": "i"}}: of the region names of the
\* model none contains another, so the pattern matches the region it names
PlanQueryMatches(fac, region) == region = <<>> \/ fac.region = region[1]

\* lines 833-852: per region, in the order the regions first appear, the number
\* of facilities and their beds and staff
RECURSIVE RegionSummaries(_, _)
RegionSummaries(facilities, summaries) ==
    IF facilities = <<>> THEN summaries
    ELSE LET fac == Head(facilities)
             at == {i \in 1..Len(summaries) : summaries[i].region = fac.region}
             next == IF at = {}
                     THEN Append(summaries, [region |-> fac.region, count |-> 1,
                                             total_beds |-> fac.beds,
                                             total_staff |-> fac.staff_count])
                     ELSE [summaries EXCEPT ![CHOOSE i \in at : TRUE] =
                              [@ EXCEPT !.count = @ + 1,
                                        !.total_beds = @ + fac.beds,
                                        !.total_staff = @ + fac.staff_count]]
         IN  RegionSummaries(Tail(facilities), next)

\* plan_id = f"plan_{uuid.uuid4().hex[:8]}"
PlanId(u) == <<"plan", u>>

\* lines 826-831: the filter on the region; ends awaiting the facility query
PlanBegin(slot, region) ==
    /\ SlotFree(slot)
    /\ reqs' = [reqs EXCEPT ![slot] =
                  [IdleRequest EXCEPT !.kind = "plan", !.pc = "plan_facilities",
                                      !.plan_region = region]]
    /\ now' = now + 1
    /\ UNCHANGED <<index_vars, db_facilities, db_plans, auth_vars, search_out, resp, db_chat_history,
                   mlflow, uuid_next>>

\* lines 831-889: the facility query answers; the regional summary, the prompt,
\* the client with its uuid session; ends awaiting the generation call
PlanSummarise(slot) ==
    /\ reqs[slot].kind = "plan"
    /\ reqs[slot].pc = "plan_facilities"
    /\ LET r0 == reqs[slot]
           facilities == SelectSeq(db_facilities,
                                   LAMBDA fac : PlanQueryMatches(fac, r0.plan_region))
       IN  reqs' = [reqs EXCEPT ![slot] =
                      [r0 EXCEPT !.pc = "plan_generate", !.llm_calls = @ + 1,
                                 !.results = RegionSummaries(facilities, <<>>)]]
    /\ uuid_next' = uuid_next + 1
    /\ UNCHANGED <<index_vars, db_facilities, db_plans, auth_vars, search_out, resp, db_chat_history,
                   mlflow, now>>

\* what send_message does: the plan text, an error that names the budget, another error
PlanAnswers == {"ok", "budget", "error"}

\* the text of the error is kept as the plan
PlanGenerateKeepingFailed(slot, answers) ==
    /\ reqs[slot].kind = "plan"
    /\ reqs[slot].pc = "plan_generate"
    /\ \E answer \in answers :
          reqs' = [reqs EXCEPT ![slot] =
                     [@ EXCEPT !.pc = "plan_store",
                               !.llm = IF answer = "ok" THEN "ok"
                                       ELSE IF answer = "budget" THEN "budget" ELSE "failed",
                               !.response_text = LlmAnswer,
                               !.plan_id = uuid_next + 1, !.created_at = now]]
    /\ uuid_next' = uuid_next + 1
    /\ UNCHANGED <<index_vars, db_facilities, db_plans, auth_vars, search_out, resp, db_chat_history,
                   mlflow, now>>

\* lines 889-900 and 904-908: the generation call answers and the plan document is
\* built, ending awaiting insert_one; or it raises and the handler answers 429 / 500
PlanGenerate(slot, answers) ==
    /\ reqs[slot].kind = "plan"
    /\ reqs[slot].pc = "plan_generate"
    /\ \E answer \in answers :
         IF answer = "ok"
         THEN /\ reqs' = [reqs EXCEPT ![slot] =
                            [@ EXCEPT !.pc = "plan_store", !.llm = "ok",
                                      !.response_text = LlmAnswer,
                                      !.plan_id = uuid_next + 1, !.created_at = now]]
              /\ uuid_next' = uuid_next + 1
         ELSE /\ reqs' = [reqs EXCEPT ![slot] =
                            [@ EXCEPT !.pc = "done",
                                      !.llm = IF answer = "budget" THEN "budget" ELSE "failed",
                                      !.status = IF answer = "budget" THEN 429 ELSE 500]]
              /\ UNCHANGED uuid_next
    /\ UNCHANGED <<index_vars, db_facilities, db_plans, auth_vars, search_out, resp, db_chat_history,
                   mlflow, now>>

PlanDoc(r) ==
    [plan_id |-> PlanId(r.plan_id), region |-> r.plan_region, plan_text |-> r.response_text,
     created_at |-> r.created_at]

\* the plan is stored and, as a passage of its own, added to the index
PlanStoreIndexed(slot) ==
    /\ reqs[slot].kind = "plan"
    /\ reqs[slot].pc = "plan_store"
    /\ reqs' = [reqs EXCEPT ![slot] = [@ EXCEPT !.pc = "done", !.status = 200]]
    /\ db_plans' = Append(db_plans, PlanDoc(reqs[slot]))
    /\ facility_ids' = Append(facility_ids, PlanId(reqs[slot].plan_id))
    /\ UNCHANGED <<data_file, faiss_index, facility_texts, db_facilities, auth_vars,
                   search_out, resp, db_chat_history, mlflow, now, uuid_next>>

\* lines 900-903: insert_one stores the plan; the response is the plan document
PlanStore(slot) ==
    /\ reqs[slot].kind = "plan"
    /\ reqs[slot].pc = "plan_store"
    /\ reqs' = [reqs EXCEPT ![slot] = [@ EXCEPT !.pc = "done", !.status = 200]]
    /\ db_plans' = Append(db_plans, PlanDoc(reqs[slot]))
    /\ UNCHANGED <<index_vars, db_facilities, auth_vars, search_out, resp, db_chat_history,
                   mlflow, now, uuid_next>>

\* ------------------------------------------------------- POST /api/auth/session
FindUserByEmail(email) ==
    LET at == {i \in 1..Len(db_users) : db_users[i].email = email}
    IN  IF at = {} THEN NoUser ELSE db_users[CHOOSE i \in at : \A j \in at : i <= j]

FindUserById(user_id) ==
    LET at == {i \in 1..Len(db_users) : db_users[i].user_id = user_id}
    IN  IF at = {} THEN NoUser ELSE db_users[CHOOSE i \in at : \A j \in at : i <= j]

\* lines 321-324: the body is read; 400 without a session id; else ends awaiting
\* the OAuth service
LoginBegin(slot, has_session_id) ==
    /\ SlotFree(slot)
    /\ reqs' = [reqs EXCEPT ![slot] =
                  IF has_session_id
                  THEN [IdleRequest EXCEPT !.kind = "login", !.pc = "oauth"]
                  ELSE [IdleRequest EXCEPT !.kind = "login", !.pc = "done", !.status = 400]]
    /\ now' = now + 1
    /\ UNCHANGED <<index_vars, db_facilities, db_plans, auth_vars, search_out, resp,
                   db_chat_history, mlflow, uuid_next>>

\* lines 326-336: the OAuth service answers; 401 unless it answers 200; else ends
\* awaiting find_one on the email
LoginOAuth(slot, answers) ==
    /\ reqs[slot].kind = "login"
    /\ reqs[slot].pc = "oauth"
    /\ \E user_data \in answers :
          reqs' = [reqs EXCEPT ![slot] =
                     IF user_data.status # 200
                     THEN [@ EXCEPT !.pc = "done", !.status = 401]
                     ELSE [@ EXCEPT !.pc = "find_user", !.user_data = user_data]]
    /\ UNCHANGED <<index_vars, db_facilities, db_plans, auth_vars, search_out, resp,
                   db_chat_history, mlflow, now, uuid_next>>

\* lines 336-345: find_one answers; a known email keeps its user_id and awaits
\* update_one, an unknown one draws a user_id and awaits insert_one
LoginFindUser(slot) ==
    /\ reqs[slot].kind = "login"
    /\ reqs[slot].pc = "find_user"
    /\ LET existing_user == FindUserByEmail(reqs[slot].user_data.email)
       IN  IF existing_user # NoUser
           THEN /\ reqs' = [reqs EXCEPT ![slot] =
                              [@ EXCEPT !.pc = "update_user",
                                        !.user_id = existing_user.user_id]]
                /\ UNCHANGED uuid_next
           ELSE /\ reqs' = [reqs EXCEPT ![slot] =
                              [@ EXCEPT !.pc = "insert_user", !.created_at = now,
                                        !.user_id = GeneratedUserId(uuid_next + 1)]]
                /\ uuid_next' = uuid_next + 1
    /\ UNCHANGED <<index_vars, db_facilities, db_plans, auth_vars, search_out, resp,
                   db_chat_history, mlflow, now>>

\* lines 340-360: update_one or insert_one answers; the session token (the uuid of
\* the default is drawn whether or not the service supplied a token) and the
\* session document; ends awaiting insert_one on the sessions
LoginWriteUser(slot) ==
    /\ reqs[slot].kind = "login"
    /\ reqs[slot].pc \in {"update_user", "insert_user"}
    /\ LET r0 == reqs[slot]
           at == {i \in 1..Len(db_users) : db_users[i].email = r0.user_data.email}
           session_token == IF r0.user_data.session_token # NoToken
                            THEN r0.user_data.session_token
                            ELSE GeneratedToken(uuid_next + 1)
       IN  /\ db_users' =
                 IF r0.pc = "insert_user"
                 THEN Append(db_users, [user_id |-> r0.user_id, email |-> r0.user_data.email,
                                        name |-> r0.user_data.name,
                                        created_at |-> r0.created_at])
                 ELSE IF at = {} THEN db_users
                 ELSE [db_users EXCEPT ![CHOOSE i \in at : \A j \in at : i <= j].name =
                          r0.user_data.name]
           /\ reqs' = [reqs EXCEPT ![slot] =
                         [r0 EXCEPT !.pc = "insert_session", !.token = session_token,
                                    !.created_at = now]]
    /\ uuid_next' = uuid_next + 1
    /\ UNCHANGED <<index_vars, db_facilities, db_plans, db_user_sessions, search_out, resp,
                   db_chat_history, mlflow, now>>

\* lines 355-368: insert_one answers; the cookie is set; ends awaiting find_one on
\* the user_id
LoginWriteSession(slot) ==
    /\ reqs[slot].kind = "login"
    /\ reqs[slot].pc = "insert_session"
    /\ db_user_sessions' =
           Append(db_user_sessions,
                  [user_id |-> reqs[slot].user_id, session_token |-> reqs[slot].token,
                   expires_at |-> reqs[slot].created_at + SessionLifetime,
                   created_at |-> reqs[slot].created_at])
    /\ reqs' = [reqs EXCEPT ![slot] = [@ EXCEPT !.pc = "read_user", !.cookie = reqs[slot].token]]
    /\ UNCHANGED <<index_vars, db_facilities, db_plans, db_users, search_out, resp,
                   db_chat_history, mlflow, now, uuid_next>>

\* lines 368-369: find_one answers; the response is the user document
LoginReadUser(slot) ==
    /\ reqs[slot].kind = "login"
    /\ reqs[slot].pc = "read_user"
    /\ reqs' = [reqs EXCEPT ![slot] =
                  [@ EXCEPT !.pc = "done", !.status = 200,
                            !.user = FindUserById(reqs[slot].user_id)]]
    /\ UNCHANGED <<index_vars, db_facilities, db_plans, auth_vars, search_out, resp,
                   db_chat_history, mlflow, now, uuid_next>>

\* ------------------------------------------- GET /api/auth/me (get_current_user)
\* lines 283-290: the cookie, else the Bearer header; 401 without a token; else
\* ends awaiting find_one on the sessions
MeBegin(slot, cookie, bearer) ==
    /\ SlotFree(slot)
    /\ LET session_token == IF cookie # NoToken THEN cookie ELSE bearer
           r == [IdleRequest EXCEPT !.kind = "me", !.cookie = cookie, !.bearer = bearer,
                                    !.token = session_token]
       IN  reqs' = [reqs EXCEPT ![slot] =
                      IF session_token = NoToken
                      THEN [r EXCEPT !.pc = "done", !.status = 401]
                      ELSE [r EXCEPT !.pc = "find_session"]]
    /\ now' = now + 1
    /\ UNCHANGED <<index_vars, db_facilities, db_plans, auth_vars, search_out, resp,
                   db_chat_history, mlflow, uuid_next>>

\* the expiry is not looked at
MeFindSessionIgnoringExpiry(slot) ==
    /\ reqs[slot].kind = "me"
    /\ reqs[slot].pc = "find_session"
    /\ LET at == {i \in 1..Len(db_user_sessions) :
                     db_user_sessions[i].session_token = reqs[slot].token}
           session == db_user_sessions[CHOOSE i \in at : \A j \in at : i <= j]
       IN  reqs' = [reqs EXCEPT ![slot] =
                      IF at = {} THEN [@ EXCEPT !.pc = "done", !.status = 401]
                      ELSE [@ EXCEPT !.pc = "find_me", !.user_id = session.user_id]]
    /\ UNCHANGED <<index_vars, db_facilities, db_plans, auth_vars, search_out, resp,
                   db_chat_history, mlflow, now, uuid_next>>

\* lines 292-304: find_one answers; 401 for no session and for an expired one;
\* else ends awaiting find_one on the users
MeFindSession(slot) ==
    /\ reqs[slot].kind = "me"
    /\ reqs[slot].pc = "find_session"
    /\ LET at == {i \in 1..Len(db_user_sessions) :
                     db_user_sessions[i].session_token = reqs[slot].token}
           session == db_user_sessions[CHOOSE i \in at : \A j \in at : i <= j]
       IN  reqs' = [reqs EXCEPT ![slot] =
                      IF at = {} THEN [@ EXCEPT !.pc = "done", !.status = 401]
                      ELSE IF session.expires_at < now
                      THEN [@ EXCEPT !.pc = "done", !.status = 401]
                      ELSE [@ EXCEPT !.pc = "find_me", !.user_id = session.user_id]]
    /\ UNCHANGED <<index_vars, db_facilities, db_plans, auth_vars, search_out, resp,
                   db_chat_history, mlflow, now, uuid_next>>

\* lines 306-312 and 372-374: find_one answers; 401 for no user, else the user
MeFindUser(slot) ==
    /\ reqs[slot].kind = "me"
    /\ reqs[slot].pc = "find_me"
    /\ LET user == FindUserById(reqs[slot].user_id)
       IN  reqs' = [reqs EXCEPT ![slot] =
                      IF user = NoUser THEN [@ EXCEPT !.pc = "done", !.status = 401]
                      ELSE [@ EXCEPT !.pc = "done", !.status = 200, !.user = user]]
    /\ UNCHANGED <<index_vars, db_facilities, db_plans, auth_vars, search_out, resp,
                   db_chat_history, mlflow, now, uuid_next>>

\* ------------------------------------------------------- POST /api/auth/logout
\* lines 378-381: the cookie alone is read, whatever the Authorization header
\* holds; with a cookie, ends awaiting delete_many
LogoutBegin(slot, cookie, bearer) ==
    /\ SlotFree(slot)
    /\ LET r == [IdleRequest EXCEPT !.kind = "logout", !.cookie = cookie,
                                    !.bearer = bearer, !.token = cookie]
       IN  reqs' = [reqs EXCEPT ![slot] =
                      IF cookie = NoToken
                      THEN [r EXCEPT !.pc = "done", !.status = 200]
                      ELSE [r EXCEPT !.pc = "delete_sessions"]]
    /\ now' = now + 1
    /\ UNCHANGED <<index_vars, db_facilities, db_plans, auth_vars, search_out, resp,
                   db_chat_history, mlflow, uuid_next>>

\* lines 381-383: delete_many answers; the cookie is deleted
LogoutDelete(slot) ==
    /\ reqs[slot].kind = "logout"
    /\ reqs[slot].pc = "delete_sessions"
    /\ db_user_sessions' =
           SelectSeq(db_user_sessions, LAMBDA s : s.session_token # reqs[slot].token)
    /\ reqs' = [reqs EXCEPT ![slot] =
                  [@ EXCEPT !.pc = "done", !.status = 200, !.cookie = NoToken]]
    /\ UNCHANGED <<index_vars, db_facilities, db_plans, db_users, search_out, resp,
                   db_chat_history, mlflow, now, uuid_next>>

InitChatVars ==
    /\ db_chat_history = <<>>
    /\ db_plans = <<>>
    /\ db_users = <<>>
    /\ db_user_sessions = <<>>
    /\ reqs = [slot \in Slots |-> IdleRequest]
    /\ mlflow = [active |-> <<>>, created |-> 0]
    /\ now = 0
    /\ uuid_next = 0

\* ----------------------------------------------------------------- startup
\* ids for every facility, passages and vectors only for those that list a specialty
BuildFaissIndexSkippingTexts ==
    LET listed == SelectSeq(data_file, LAMBDA fac : fac.specialties # <<>>)
    IN  /\ ~IndexBuilt
        /\ db_facilities' = IF Len(db_facilities) = 0 THEN data_file ELSE db_facilities
        /\ facility_texts' = [i \in 1..Len(listed) |-> FacilityText(listed[i])]
        /\ facility_ids' = [i \in 1..Len(data_file) |-> data_file[i].facility_id]
        /\ faiss_index' = <<[i \in 1..Len(listed) |-> EncodeText(FacilityText(listed[i]))]>>
        /\ UNCHANGED <<data_file, search_out, resp, chat_vars>>

\* the collection is filled at every start, empty or not
BuildFaissIndexAlwaysInserting ==
    /\ ~IndexBuilt
    /\ db_facilities' = db_facilities \o data_file
    /\ facility_texts' = [i \in 1..Len(data_file) |-> FacilityText(data_file[i])]
    /\ facility_ids' = [i \in 1..Len(data_file) |-> data_file[i].facility_id]
    /\ faiss_index' = <<[i \in 1..Len(data_file) |-> EncodeText(FacilityText(data_file[i]))]>>
    /\ UNCHANGED <<data_file, search_out, resp, chat_vars>>

\* build_faiss_index: load the file, fill an empty store, embed every row
BuildFaissIndex ==
    /\ ~IndexBuilt
    /\ db_facilities' = IF Len(db_facilities) = 0 THEN data_file ELSE db_facilities
    /\ facility_texts' = [i \in 1..Len(data_file) |-> FacilityText(data_file[i])]
    /\ facility_ids' = [i \in 1..Len(data_file) |-> data_file[i].facility_id]
    /\ faiss_index' = <<[i \in 1..Len(data_file) |-> EncodeText(FacilityText(data_file[i]))]>>
    /\ UNCHANGED <<data_file, search_out, resp, chat_vars>>

\* ----------------------------------------------------------------- actions
NoSearch == [called |-> FALSE, query |-> FreeText(0), top_k |-> 0, results |-> <<>>]

\* a direct call search_similar(query, top_k)
CallSearchSimilar(query, top_k) ==
    /\ \E tie \in TieBreaks :
           search_out' = [called |-> TRUE, query |-> query, top_k |-> top_k,
                          results |-> SearchSimilar(faiss_index, facility_texts,
                                                    facility_ids, query, top_k, tie)]
    /\ UNCHANGED <<index_vars, db_facilities, resp, chat_vars>>

GetFacility(facility_id) ==
    /\ resp' = GetFacilityResponse(facility_id, FindOneFacility(facility_id))
    /\ UNCHANGED <<index_vars, db_facilities, search_out, chat_vars>>

GetMedicalDeserts ==
    /\ resp' = [op |-> "medical_deserts", status |-> 200, arg |-> <<>>,
                body |-> MedicalDeserts(db_facilities)]
    /\ UNCHANGED <<index_vars, db_facilities, search_out, chat_vars>>

\* ------------------------------------------------------------ the read endpoints
\* GET /api/facilities?region=...: the filter on the region alone
GetFacilities(region) ==
    /\ resp' = [op |-> "get_facilities", status |-> 200, arg |-> region,
                body |-> SelectSeq(db_facilities,
                                   LAMBDA fac : PlanQueryMatches(fac, region))]
    /\ UNCHANGED <<index_vars, db_facilities, search_out, chat_vars>>

RECURSIVE SumOf(_, _)
SumOf(facilities, field) ==
    IF facilities = <<>> THEN 0
    ELSE Head(facilities)[field] + SumOf(Tail(facilities), field)

\* GET /api/analysis/stats: the totals over the stored facilities
GetStats ==
    /\ resp' = [op |-> "get_stats", status |-> 200, arg |-> <<>>,
                body |-> [total_facilities |-> Len(db_facilities),
                          total_beds |-> SumOf(db_facilities, "beds"),
                          total_staff |-> SumOf(db_facilities, "staff_count"),
                          total_regions |->
                              Cardinality({db_facilities[i].region :
                                              i \in 1..Len(db_facilities)}),
                          total_specialties |->
                              Cardinality(UNION {ToSet(db_facilities[i].specialties) :
                                                    i \in 1..Len(db_facilities)})]]
    /\ UNCHANGED <<index_vars, db_facilities, search_out, chat_vars>>

PlanHistoryLimit == 20      \* to_list(20)

\* GET /api/planning/history: find({}).sort("created_at", -1).to_list(20)
GetPlanHistory ==
    /\ \E tie \in TieBreaks :
         LET idxs == 1..Len(db_plans)
             Before(i, j) ==
                 \/ db_plans[i].created_at > db_plans[j].created_at
                 \/ /\ db_plans[i].created_at = db_plans[j].created_at
                    /\ IF tie = "low" THEN i < j ELSE i > j
             ranked == [p \in idxs |->
                           CHOOSE i \in idxs : Cardinality({j \in idxs : Before(j, i)}) = p - 1]
         IN  resp' = [op |-> "get_plan_history", status |-> 200, arg |-> <<>>,
                      body |-> [p \in 1..Min(PlanHistoryLimit, Len(db_plans)) |->
                                   db_plans[ranked[p]]]]
    /\ UNCHANGED <<index_vars, db_facilities, search_out, chat_vars>>

\* GET /api/health: faiss_index.ntotal if faiss_index else 0
Health ==
    /\ resp' = [op |-> "health", status |-> 200, arg |-> <<>>,
                body |-> [status |-> "ok",
                          faiss_index_size |-> IF IndexBuilt THEN Len(faiss_index[1]) ELSE 0]]
    /\ UNCHANGED <<index_vars, db_facilities, search_out, chat_vars>>

\* the process ends and a new one starts: the module globals of lines 49-51 and
\* MLflow's active runs are those of a fresh process, requests in flight are
\* gone, the collections stay
Restart ==
    /\ faiss_index' = <<>>
    /\ facility_texts' = <<>>
    /\ facility_ids' = <<>>
    /\ reqs' = [slot \in Slots |-> IdleRequest]
    /\ mlflow' = [mlflow EXCEPT !.active = <<>>]
    /\ search_out' = NoSearch
    /\ resp' = NoResponse
    /\ UNCHANGED <<data_file, db_facilities, db_chat_history, db_plans, auth_vars, now,
                   uuid_next>>

\* ------------------------------------- the desert analysis over every small corpus
InitDeserts ==
    /\ \E n \in 0..MaxFacilities : \E rows \in [1..n -> FacilityRows] :
           /\ data_file = CorpusOf(rows)
           /\ db_facilities = CorpusOf(rows)
    /\ faiss_index = <<>>
    /\ facility_texts = <<>>
    /\ facility_ids = <<>>
    /\ search_out = NoSearch
    /\ resp = NoResponse
    /\ InitChatVars

NextDeserts == GetMedicalDeserts

SpecDeserts == InitDeserts /\ [][NextDeserts]_vars

\* ------------------------- startup, retrieval and facility lookup over small corpora
Queries == {FreeText(0), FreeText(2)}

\* the process is imported, the index not yet built; the store is empty (first start)
\* or holds the corpus of an earlier start
InitIndex ==
    /\ \E n \in 1..MaxDocs : \E rows \in [1..n -> NarrativeRows] :
           /\ data_file = CorpusOf(rows)
           /\ db_facilities \in {<<>>, CorpusOf(rows)}
    /\ faiss_index = <<>>
    /\ facility_texts = <<>>
    /\ facility_ids = <<>>
    /\ search_out = NoSearch
    /\ resp = NoResponse
    /\ InitChatVars

NextIndex ==
    \/ BuildFaissIndex
    \/ \E q \in Queries : \E k \in 1..MaxTopK : CallSearchSimilar(q, k)

SpecIndex == InitIndex /\ [][NextIndex]_vars

\* ------------------------------------------------- lookups in a loaded facility store
InitStore ==
    /\ \E n \in 0..MaxDocs : \E rows \in [1..n -> NarrativeRows] :
           /\ data_file = CorpusOf(rows)
           /\ db_facilities = CorpusOf(rows)
    /\ faiss_index = <<>>
    /\ facility_texts = <<>>
    /\ facility_ids = <<>>
    /\ search_out = NoSearch
    /\ resp = NoResponse
    /\ InitChatVars

NextStore == \E i \in 1..(MaxDocs + 1) : GetFacility(FacilityIdOf(i))

SpecStore == InitStore /\ [][NextStore]_vars

\* ------------------------------------------------ one client, many turns
MaxTurns == 8

ChatCorpus == CorpusOf([i \in 1..MaxDocs |->
                  [region |-> "Northern", beds |-> 50, staff_count |-> 100,
                   cap |-> Clinic, topic |-> (i - 1) % 8]])

MemorySessions == {ClientSession(1), ClientSession(2)}

InitMemory ==
    /\ data_file = ChatCorpus
    /\ db_facilities = ChatCorpus
    /\ facility_texts = [i \in 1..Len(ChatCorpus) |-> FacilityText(ChatCorpus[i])]
    /\ facility_ids = [i \in 1..Len(ChatCorpus) |-> ChatCorpus[i].facility_id]
    /\ faiss_index = <<[i \in 1..Len(ChatCorpus) |-> EncodeText(FacilityText(ChatCorpus[i]))]>>
    /\ search_out = NoSearch
    /\ resp = NoResponse
    /\ InitChatVars

NextMemory ==
    \/ \E session_in \in MemorySessions :
          /\ Len(db_chat_history) < MaxTurns
          /\ ChatBegin(1, session_in, FreeText(0), {"ok"})
    \/ ChatLoadHistory(1, {"ok"})
    \/ ChatAssemble(1)
    \/ ChatGenerate(1, {TRUE}, {"ok"}, {0})
    \/ ChatPersist(1, {"ok"})

SpecMemory == InitMemory /\ [][NextMemory]_vars

\* ------------------------------------- requests around startup, failing LLM
MaxRequests == 3

ChatSessions == {NoSession, ClientSession(1)}

ChatMessages == {FreeText(0), FreeText(4)}

InitChat ==
    /\ data_file = ChatCorpus
    /\ db_facilities = ChatCorpus
    /\ faiss_index = <<>>
    /\ facility_texts = <<>>
    /\ facility_ids = <<>>
    /\ search_out = NoSearch
    /\ resp = NoResponse
    /\ InitChatVars

NextChat ==
    \/ BuildFaissIndex
    \/ \E session_in \in ChatSessions, message \in ChatMessages :
          /\ now < MaxRequests
          /\ ChatBegin(1, session_in, message, {"ok"})
    \/ ChatLoadHistory(1, {"ok"})
    \/ ChatAssemble(1)
    \/ ChatGenerate(1, BOOLEAN, {"ok"}, {0})
    \/ ChatPersist(1, {"ok"})

SpecChat == InitChat /\ [][NextChat]_vars

\* ------------------------------------ two requests, experiment logging fails
QuerySpecs ==
    {[filter |-> <<"Northern">>, projection |-> <<>>, sort |-> <<>>, limit |-> <<>>,
      explanation |-> "all of Northern"],
     [filter |-> <<>>, projection |-> <<"name", "beds">>, sort |-> <<"beds">>,
      limit |-> <<1>>, explanation |-> "the largest"]}

\* the second request arrives while the first is being served, or after it
SlotOpen(slot) == reqs[slot].pc = "idle" /\ (slot = 1 \/ reqs[1].pc # "idle")

NextLogging ==
    \/ \E slot \in Slots, session_in \in ChatSessions :
          /\ SlotOpen(slot)
          /\ ChatBegin(slot, session_in, FreeText(0), LogOutcomes)
    \/ \E slot \in Slots : ChatLoadHistory(slot, LogOutcomes)
    \/ \E slot \in Slots : ChatAssemble(slot)
    \/ \E slot \in Slots : ChatGenerate(slot, BOOLEAN, LogOutcomes, ClockReads)
    \/ \E slot \in Slots : ChatPersist(slot, LogOutcomes)
    \/ \E slot \in Slots :
          /\ SlotOpen(slot)
          /\ T2sBegin(slot, FreeText(1), LogOutcomes)
    \/ \E slot \in Slots : T2sTranslate(slot, QuerySpecs)
    \/ \E slot \in Slots : T2sExecute(slot, LogOutcomes)

SpecLogging == InitMemory /\ [][NextLogging]_vars

\* ------------------------------------------- one chat over corpora of passages
MaxPassages == 7

PassageRows == [region : {"Northern"}, beds : {50}, staff_count : {100}, cap : {Clinic},
                topic : {0, 1, 2}]

InitCitations ==
    /\ \E n \in 1..MaxPassages : \E rows \in [1..n -> PassageRows] :
          /\ data_file = CorpusOf(rows)
          /\ db_facilities = CorpusOf(rows)
          /\ facility_texts = [i \in 1..n |-> FacilityText(CorpusOf(rows)[i])]
          /\ facility_ids = [i \in 1..n |-> CorpusOf(rows)[i].facility_id]
          /\ faiss_index = <<[i \in 1..n |-> EncodeText(FacilityText(CorpusOf(rows)[i]))]>>
    /\ search_out = NoSearch
    /\ resp = NoResponse
    /\ InitChatVars

NextCitations ==
    \/ SlotOpen(1) /\ ChatBegin(1, ClientSession(1), FreeText(0), {"ok"})
    \/ ChatLoadHistory(1, {"ok"})
    \/ ChatAssemble(1)
    \/ ChatGenerate(1, BOOLEAN, {"ok"}, {0})
    \/ ChatPersist(1, {"ok"})

SpecCitations == InitCitations /\ [][NextCitations]_vars

\* ------------------------------------- two chat requests, served concurrently
NextConcurrent ==
    \/ \E slot \in Slots, session_in \in ChatSessions :
          /\ SlotOpen(slot)
          /\ ChatBegin(slot, session_in, FreeText(0), {"ok"})
    \/ \E slot \in Slots : ChatLoadHistory(slot, {"ok"})
    \/ \E slot \in Slots : ChatAssemble(slot)
    \/ \E slot \in Slots : ChatGenerate(slot, BOOLEAN, {"ok"}, ClockReads)
    \/ \E slot \in Slots : ChatPersist(slot, {"ok"})

SpecConcurrent == InitMemory /\ [][NextConcurrent]_vars

\* ------------------------------- a process start over a store that may hold
\* the records of an earlier data file
InitStartup ==
    /\ \E n \in 1..MaxDocs : \E rows \in [1..n -> NarrativeRows] : \E m \in 0..n :
           /\ data_file = CorpusOf(rows)
           /\ db_facilities = SubSeq(CorpusOf(rows), 1, m)
    /\ faiss_index = <<>>
    /\ facility_texts = <<>>
    /\ facility_ids = <<>>
    /\ search_out = NoSearch
    /\ resp = NoResponse
    /\ InitChatVars

NextStartup == BuildFaissIndex

SpecStartup == InitStartup /\ [][NextStartup]_vars

\* ------------------------------- chat requests one after another, history fetches
NextHistory ==
    \/ \E session_in \in MemorySessions :
          /\ now < MaxRequests
          /\ ChatBegin(1, session_in, FreeText(0), {"ok"})
    \/ ChatLoadHistory(1, {"ok"})
    \/ ChatAssemble(1)
    \/ ChatGenerate(1, BOOLEAN, {"ok"}, ClockReads)
    \/ ChatPersist(1, {"ok"})
    \/ \E session_id \in MemorySessions : GetChatHistory(session_id)

SpecHistory == InitMemory /\ [][NextHistory]_vars

\* --------------------------- two requests of any of the three generating handlers
PlanRegions == {<<>>, <<"Northern">>}

NextGeneration ==
    \/ \E slot \in Slots, session_in \in ChatSessions :
          /\ SlotOpen(slot)
          /\ ChatBegin(slot, session_in, FreeText(0), {"ok"})
    \/ \E slot \in Slots : ChatLoadHistory(slot, {"ok"})
    \/ \E slot \in Slots : ChatAssemble(slot)
    \/ \E slot \in Slots : ChatGenerate(slot, BOOLEAN, {"ok"}, {0})
    \/ \E slot \in Slots : ChatPersist(slot, {"ok"})
    \/ \E slot \in Slots :
          /\ SlotOpen(slot)
          /\ T2sBegin(slot, FreeText(1), {"ok"})
    \/ \E slot \in Slots : T2sTranslate(slot, QuerySpecs)
    \/ \E slot \in Slots : T2sExecute(slot, {"ok"})
    \/ \E slot \in Slots, region \in PlanRegions :
          /\ SlotOpen(slot)
          /\ PlanBegin(slot, region)
    \/ \E slot \in Slots : PlanSummarise(slot)
    \/ \E slot \in Slots : PlanGenerate(slot, PlanAnswers)
    \/ \E slot \in Slots : PlanStore(slot)

SpecGeneration == InitMemory /\ [][NextGeneration]_vars

\* ------------------------------- every endpoint, one request after another
OAuthAnswers ==
    {[status |-> 401, email |-> "none", name |-> "none", session_token |-> NoToken],
     [status |-> 200, email |-> "ama@example.org", name |-> "Ama",
      session_token |-> NoToken]}

PresentedTokens == {NoToken, GeneratedToken(2)}

NextServer ==
    \/ /\ now < MaxRequests
       /\ \/ ChatBegin(1, NoSession, FreeText(0), {"ok"})
          \/ T2sBegin(1, FreeText(1), {"ok"})
          \/ PlanBegin(1, <<"Northern">>)
          \/ LoginBegin(1, TRUE)
          \/ \E cookie \in PresentedTokens : MeBegin(1, cookie, NoToken)
          \/ \E cookie \in PresentedTokens : LogoutBegin(1, cookie, NoToken)
    \/ ChatLoadHistory(1, {"ok"})
    \/ ChatAssemble(1)
    \/ ChatGenerate(1, BOOLEAN, {"ok"}, {0})
    \/ ChatPersist(1, {"ok"})
    \/ T2sTranslate(1, QuerySpecs)
    \/ T2sExecute(1, {"ok"})
    \/ PlanSummarise(1)
    \/ PlanGenerate(1, PlanAnswers)
    \/ PlanStore(1)
    \/ LoginOAuth(1, OAuthAnswers)
    \/ LoginFindUser(1)
    \/ LoginWriteUser(1)
    \/ LoginWriteSession(1)
    \/ LoginReadUser(1)
    \/ MeFindSession(1)
    \/ MeFindUser(1)
    \/ LogoutDelete(1)
    \/ /\ SlotFree(1)
       /\ \/ GetFacility(FacilityIdOf(1))
          \/ GetFacilities(<<"Northern">>)
          \/ GetMedicalDeserts
          \/ GetStats
          \/ GetChatHistory(GeneratedSession(1))
          \/ GetPlanHistory
          \/ Health

SpecServer == InitMemory /\ [][NextServer]_vars

\* ------------------------------- chat requests that follow up on a returned id
StoredSessions == {db_chat_history[i].session_id : i \in 1..Len(db_chat_history)}

NextSessions ==
    \/ \E session_in \in {NoSession, EmptySession, ClientSession(1)} \cup StoredSessions,
          message \in ChatMessages :
          /\ now < MaxRequests
          /\ ChatBegin(1, session_in, message, {"ok"})
    \/ ChatLoadHistory(1, {"ok"})
    \/ ChatAssemble(1)
    \/ ChatGenerate(1, BOOLEAN, {"ok"}, {0})
    \/ ChatPersist(1, {"ok"})

SpecSessions == InitMemory /\ [][NextSessions]_vars

\* ------------------------------- process starts one after another, from the
\* first one over an empty store, with requests served by each process
InitRestarts ==
    /\ \E n \in 1..MaxFacilities : data_file = SubSeq(ChatCorpus, 1, n)
    /\ db_facilities = <<>>
    /\ faiss_index = <<>>
    /\ facility_texts = <<>>
    /\ facility_ids = <<>>
    /\ search_out = NoSearch
    /\ resp = NoResponse
    /\ InitChatVars

NextRestarts ==
    \/ BuildFaissIndex
    \/ Restart
    \/ /\ IndexBuilt
       /\ now < MaxRequests
       /\ \/ ChatBegin(1, ClientSession(1), FreeText(0), {"ok"})
          \/ T2sBegin(1, FreeText(1), {"ok"})
          \/ PlanBegin(1, <<>>)
    \/ ChatLoadHistory(1, {"ok"})
    \/ ChatAssemble(1)
    \/ ChatGenerate(1, {TRUE}, {"ok"}, {0})
    \/ ChatPersist(1, {"ok"})
    \/ T2sTranslate(1, QuerySpecs)
    \/ T2sExecute(1, {"ok"})
    \/ PlanSummarise(1)
    \/ PlanGenerate(1, {"ok"})
    \/ PlanStore(1)
    \/ /\ SlotFree(1)
       /\ \/ GetFacility(FacilityIdOf(1))
          \/ GetFacilities(<<>>)
          \/ GetStats

SpecRestarts == InitRestarts /\ [][NextRestarts]_vars

\* ------------------------------- two requests, the store failing at any await
NextRuns ==
    \/ \E slot \in Slots :
          /\ SlotOpen(slot)
          /\ ChatBegin(slot, ClientSession(1), FreeText(0), {"ok"})
    \/ \E slot \in Slots : ChatLoadHistory(slot, {"ok"})
    \/ \E slot \in Slots : ChatAssemble(slot)
    \/ \E slot \in Slots : ChatGenerate(slot, BOOLEAN, {"ok"}, {0})
    \/ \E slot \in Slots : ChatPersist(slot, {"ok"})
    \/ \E slot \in Slots : ChatStoreRaises(slot)
    \/ \E slot \in Slots :
          /\ SlotOpen(slot)
          /\ T2sBegin(slot, FreeText(1), {"ok"})
    \/ \E slot \in Slots : T2sTranslate(slot, QuerySpecs)
    \/ \E slot \in Slots : T2sExecute(slot, {"ok"})
    \/ \E slot \in Slots : T2sStoreRaises(slot)

SpecRuns == InitMemory /\ [][NextRuns]_vars

\* ------------------------------------------------- logging out, then asking /me
StoredTokens == {db_user_sessions[i].session_token : i \in 1..Len(db_user_sessions)}

\* the token a logout request was authenticated with: its cookie, else its header
LoggedOutToken(r) == IF r.token # NoToken THEN r.token ELSE r.bearer

\* logins one after another; one logout by a client holding a stored token, in its
\* cookie or in its Authorization header; then one /me presenting that token
NextLogout ==
    \/ /\ now < MaxRequests
       /\ reqs[2].pc = "idle"
       /\ \/ LoginBegin(1, TRUE)
          \/ \E T \in StoredTokens : LogoutBegin(1, T, NoToken)
          \/ \E T \in StoredTokens : LogoutBegin(1, NoToken, T)
    \/ LoginOAuth(1, OAuthAnswers)
    \/ LoginFindUser(1)
    \/ LoginWriteUser(1)
    \/ LoginWriteSession(1)
    \/ LoginReadUser(1)
    \/ LogoutDelete(1)
    \/ /\ reqs[1].kind = "logout"
       /\ reqs[1].pc = "done"
       /\ reqs[2].pc = "idle"
       /\ \/ MeBegin(2, LoggedOutToken(reqs[1]), NoToken)
          \/ MeBegin(2, NoToken, LoggedOutToken(reqs[1]))
    \/ MeFindSession(2)
    \/ MeFindUser(2)

SpecLogout == InitMemory /\ [][NextLogout]_vars

\* --------------------------------------- who is asking: sessions, expiry, users
MaxClock == 9

\* the database outlives the process: what it holds when the process starts is an
\* input of get_current_user, which is written for a session whose user is gone
\* (lines 306-310) as well as for one whose user is there
EarlierUser ==
    [user_id |-> GeneratedUserId(0), email |-> "ama@example.org", name |-> "Ama",
     created_at |-> 0]

EarlierSession ==
    [user_id |-> GeneratedUserId(0), session_token |-> GeneratedToken(0),
     expires_at |-> SessionLifetime, created_at |-> 0]

InitAuth ==
    /\ data_file = ChatCorpus
    /\ db_facilities = ChatCorpus
    /\ facility_texts = [i \in 1..Len(ChatCorpus) |-> FacilityText(ChatCorpus[i])]
    /\ facility_ids = [i \in 1..Len(ChatCorpus) |-> ChatCorpus[i].facility_id]
    /\ faiss_index = <<[i \in 1..Len(ChatCorpus) |-> EncodeText(FacilityText(ChatCorpus[i]))]>>
    /\ search_out = NoSearch
    /\ resp = NoResponse
    /\ db_chat_history = <<>>
    /\ db_plans = <<>>
    /\ db_users \in {<<>>, <<EarlierUser>>}
    /\ db_user_sessions \in {<<>>, <<EarlierSession>>}
    /\ reqs = [slot \in Slots |-> IdleRequest]
    /\ mlflow = [active |-> <<>>, created |-> 0]
    /\ now = 0
    /\ uuid_next = 0

\* line 302: datetime.now(timezone.utc) is later than it was
Tick ==
    /\ now < MaxClock
    /\ now' = now + 1
    /\ UNCHANGED <<index_vars, db_facilities, db_plans, auth_vars, search_out, resp,
                   db_chat_history, reqs, mlflow, uuid_next>>

\* the tokens a client may hold: none, the earlier one, fresh ones, one never issued
AuthTokens == {NoToken} \cup {GeneratedToken(u) : u \in 0..3}

\* at most one login, the clock moving between requests, then one /api/auth/me
NextAuth ==
    \/ /\ reqs[1].pc = "idle"
       /\ reqs[2].pc = "idle"
       /\ LoginBegin(1, TRUE)
    \/ LoginOAuth(1, OAuthAnswers)
    \/ LoginFindUser(1)
    \/ LoginWriteUser(1)
    \/ LoginWriteSession(1)
    \/ LoginReadUser(1)
    \/ /\ SlotFree(1)
       /\ reqs[2].pc = "idle"
       /\ Tick
    \/ /\ SlotFree(1)
       /\ reqs[2].pc = "idle"
       /\ \E cookie \in AuthTokens, bearer \in AuthTokens : MeBegin(2, cookie, bearer)
    \/ MeFindSession(2)
    \/ MeFindUser(2)

SpecAuth == InitAuth /\ [][NextAuth]_vars

\* ------------------------------------------------------- logins that overlap
\* two login requests, each started once, their awaits interleaved
NextLogins ==
    \/ \E slot \in Slots : reqs[slot].pc = "idle" /\ LoginBegin(slot, TRUE)
    \/ \E slot \in Slots : LoginOAuth(slot, OAuthAnswers)
    \/ \E slot \in Slots : LoginFindUser(slot)
    \/ \E slot \in Slots : LoginWriteUser(slot)
    \/ \E slot \in Slots : LoginWriteSession(slot)
    \/ \E slot \in Slots : LoginReadUser(slot)

SpecLogins == InitMemory /\ [][NextLogins]_vars

\* ------------------------------------------- queries against stores of every size
\* facility i of a store: most in Northern, every seventh in Volta, beds in three sizes
QueryCorpus(n) == CorpusOf([i \in 1..n |->
                     [region |-> IF i % 7 = 0 THEN "Volta" ELSE "Northern",
                      beds |-> 10 * (i % 3), staff_count |-> 100,
                      cap |-> Clinic, topic |-> i % 8]])

\* stores smaller than the default limit, between the limits and larger than the cap
StoreSizes == {0, MaxFacilities, T2sDefaultLimit + 1, T2sMaxLimit + 10}

\* what the translation may ask for: any filter, sort and limit, a limit above the
\* cap, none, zero and a negative one included
LimitSpecs ==
    [filter : {<<>>, <<"Northern">>}, projection : {<<>>, <<"name", "beds">>},
     sort : {<<>>, <<"beds">>},
     limit : {<<>>, <<0>>, <<1>>, <<T2sDefaultLimit + 1>>, <<T2sMaxLimit>>,
              <<T2sMaxLimit + 1>>, <<-1>>},
     explanation : {"asked"}]

InitQueries ==
    /\ \E n \in StoreSizes :
          /\ data_file = QueryCorpus(n)
          /\ db_facilities = QueryCorpus(n)
          /\ facility_texts = [i \in 1..n |-> FacilityText(QueryCorpus(n)[i])]
          /\ facility_ids = [i \in 1..n |-> QueryCorpus(n)[i].facility_id]
          /\ faiss_index = <<[i \in 1..n |-> EncodeText(FacilityText(QueryCorpus(n)[i]))]>>
    /\ search_out = NoSearch
    /\ resp = NoResponse
    /\ InitChatVars

NextQueries ==
    \/ reqs[1].pc = "idle" /\ T2sBegin(1, FreeText(1), {"ok"})
    \/ T2sTranslate(1, LimitSpecs)
    \/ T2sExecute(1, {"ok"})

SpecQueries == InitQueries /\ [][NextQueries]_vars

\* =================================================================== claims
\* C1: on a built index search_similar(query, k) returns at most k results, each with
\* a score strictly greater than 0, ordered by descending score.
C1_AtMostKPositiveDescending ==
    search_out.called =>
        LET r == search_out.results
        IN  /\ Len(r) <= search_out.top_k
            /\ \A i \in 1..Len(r) : r[i].score > 0
            /\ \A i, j \in 1..Len(r) : i < j => r[i].score >= r[j].score

\* a search over a built index that ranked two hits of different score and dropped a
\* stored passage of the top k for its score
C1_Witness ==
    /\ search_out.called
    /\ IndexBuilt
    /\ search_out.top_k <= Len(facility_texts)
    /\ Len(search_out.results) >= 2
    /\ Len(search_out.results) < search_out.top_k
    /\ search_out.results[1].score > search_out.results[2].score

\* a chat request that has run its history query and its search
Loaded(r) == r.kind = "chat" /\ r.pc \in {"facilities", "generate", "persist", "done"}

Answered(r) == r.kind = "chat" /\ r.pc = "done"

\* C2: while the vector index is unbuilt the search of a chat request returns the
\* empty list whatever the message, and the request still completes with status
\* 200 and zero citations.
C2_UnbuiltIndexGivesNoCitations ==
    \A slot \in Slots :
        LET r == reqs[slot]
        IN  (Loaded(r) /\ ~r.index_built) =>
                /\ r.search_results = <<>>
                /\ r.citations = <<>>
                /\ Answered(r) => (r.status = 200 /\ ChatResponse(r).citations = <<>>)

C2_Witness ==
    \E slot \in Slots :
        /\ Answered(reqs[slot])
        /\ ~reqs[slot].index_built
        /\ reqs[slot].status = 200
        /\ Len(data_file) > 0

\* the stored turns of the session of r that precede r's own turn
PriorTurns(r) ==
    LET before == IF r.pc = "done"
                  THEN SubSeq(db_chat_history, 1, Len(db_chat_history) - 1)
                  ELSE db_chat_history
    IN  SelectSeq(before, LAMBDA d : d.session_id = r.session_id)

\* C3: the history a chat request of session S loads is made only of turns of S:
\* with m prior turns it is the last min(m, 5) of them, oldest first; the Memory
\* Retrieval step reports that number, and reports no history exactly when m = 0.
C3_HistoryIsLastFiveOfSession ==
    \A slot \in Slots :
        LET r == reqs[slot]
            prior == PriorTurns(r)
            m == Len(prior)
            loaded == r.history_docs
        IN  Loaded(r) =>
                /\ loaded = SubSeq(prior, m - Min(m, 5) + 1, m)
                /\ \A i \in 1..Len(loaded) : loaded[i].session_id = r.session_id
                /\ \A i \in 1..(Len(loaded) - 1) : loaded[i].created_at < loaded[i + 1].created_at
                /\ r.reasoning_steps[2].action = "Memory Retrieval"
                /\ r.reasoning_steps[2].n_turns = Min(m, 5)
                /\ (m = 0) <=> (r.reasoning_steps[2].detail
                                   = "No previous conversation history (new session)")
                /\ Len(r.conversation_context) = Min(m, 5)

C3_Witness ==
    \E slot \in Slots :
        /\ Loaded(reqs[slot])
        /\ Len(PriorTurns(reqs[slot])) > 5
        /\ Len(reqs[slot].history_docs) = 5
        /\ \E i \in 1..Len(db_chat_history) :
               db_chat_history[i].session_id # reqs[slot].session_id

\* C4: when the generation call of a chat request fails, the response text is the
\* fallback message carrying the number of retrieved records, the request is
\* answered with status 200, and the turn with that text is stored in the history
\* of its session.
C4_LlmFailureGivesFallback ==
    \A slot \in Slots :
        LET r == reqs[slot]
        IN  (r.kind = "chat" /\ r.llm = "failed") =>
                /\ r.response_text = [kind |-> "fallback", found |-> Len(r.search_results)]
                /\ Answered(r) =>
                      /\ r.status = 200
                      /\ ChatResponse(r).response = r.response_text
                      /\ \E i \in 1..Len(db_chat_history) :
                            /\ db_chat_history[i].session_id = r.session_id
                            /\ db_chat_history[i].message = r.message
                            /\ db_chat_history[i].created_at = r.created_at
                            /\ db_chat_history[i].response = r.response_text

C4_Witness ==
    \E slot \in Slots :
        /\ Answered(reqs[slot])
        /\ reqs[slot].llm = "failed"
        /\ Len(reqs[slot].search_results) > 0
        /\ reqs[slot].status = 200

\* two answered chat requests that were given the same message and session id and
\* were shown the same history, search results and generation outcome
SameChatRequest(a, b) ==
    /\ Answered(a) /\ Answered(b)
    /\ a.message = b.message
    /\ a.session_in = b.session_in
    /\ a.history_docs = b.history_docs
    /\ a.search_results = b.search_results
    /\ a.llm = b.llm

Translated(r) == r.kind = "text2sql" /\ r.pc = "done"

\* two finished text2sql requests with the same query, the same translation and
\* the same answer order of the store
SameText2SqlRequest(a, b) ==
    /\ Translated(a) /\ Translated(b)
    /\ a.message = b.message
    /\ a.llm = b.llm
    /\ a.query_spec = b.query_spec
    /\ a.tie = b.tie

\* C5: experiment logging never changes the primary response.  Two chat requests
\* in the same situation get the same response text, citations, reasoning steps
\* and (when the client named one) session id, two text2sql requests in the same
\* situation get the same response, whatever logging did in either; a chat request
\* is always answered 200, and a text2sql request is an error only when its
\* translation failed.
C5_LoggingNeverChangesResponse ==
    /\ \A slot \in Slots : Answered(reqs[slot]) => reqs[slot].status = 200
    /\ \A slot \in Slots :
          Translated(reqs[slot]) =>
              reqs[slot].status = (IF reqs[slot].llm = "ok" THEN 200
                                   ELSE IF reqs[slot].llm = "bad_json" THEN 422 ELSE 500)
    /\ \A s1 \in Slots, s2 \in Slots :
          SameChatRequest(reqs[s1], reqs[s2]) =>
              /\ ChatResponse(reqs[s1]).response = ChatResponse(reqs[s2]).response
              /\ ChatResponse(reqs[s1]).citations = ChatResponse(reqs[s2]).citations
              /\ ChatResponse(reqs[s1]).reasoning_steps = ChatResponse(reqs[s2]).reasoning_steps
              /\ SessionGiven(reqs[s1].session_in) =>
                     ChatResponse(reqs[s1]).session_id = ChatResponse(reqs[s2]).session_id
    /\ \A s1 \in Slots, s2 \in Slots :
          SameText2SqlRequest(reqs[s1], reqs[s2]) =>
              /\ reqs[s1].status = reqs[s2].status
              /\ reqs[s1].status = 200 => Text2SQLResponse(reqs[s1]) = Text2SQLResponse(reqs[s2])

C5_Witness ==
    /\ SameChatRequest(reqs[1], reqs[2])
    /\ reqs[1].log_failed
    /\ ~reqs[2].log_failed
    /\ reqs[1].status = 200
    /\ SessionGiven(reqs[1].session_in)


IsGetFacility == resp.op = "get_facility"

FacilityStored(fid) == \E i \in 1..Len(db_facilities) : db_facilities[i].facility_id = fid

\* C6: fetching an identifier that matches no stored facility yields 404, never an
\* empty object or a success; fetching an existing identifier returns that facility.
C6_UnknownFacilityIs404 ==
    IsGetFacility =>
        IF FacilityStored(resp.arg)
        THEN /\ resp.status = 200
             /\ \E i \in 1..Len(db_facilities) : db_facilities[i] = resp.body
             /\ resp.body.facility_id = resp.arg
        ELSE /\ resp.status = 404
             /\ resp.body = "Facility not found"

C6_Witness ==
    /\ IsGetFacility
    /\ Len(db_facilities) > 0
    /\ ~FacilityStored(resp.arg)
    /\ resp.status = 404

IsDeserts == resp.op = "medical_deserts"

DesertRows == IF IsDeserts THEN {resp.body[i] : i \in 1..Len(resp.body)} ELSE {}

FewSpecialties(r) == Cardinality(r.specialties) < 3

SameBedsStaffFlags(r1, r2) ==
    /\ r1.total_beds = r2.total_beds
    /\ r1.total_staff = r2.total_staff
    /\ r1.has_surgery = r2.has_surgery
    /\ r1.has_icu = r2.has_icu
    /\ r1.has_ct_mri = r2.has_ct_mri
    /\ r1.has_blood_bank = r2.has_blood_bank

\* C7 as stated: two regions with identical total beds, total staff and capability
\* flags always get the same desert score and severity label.
C7_ScoreOnlyOfBedsStaffFlags ==
    \A r1, r2 \in DesertRows :
        SameBedsStaffFlags(r1, r2) =>
            /\ r1.desert_score = r2.desert_score
            /\ r1.severity = r2.severity

\* C7 amended: the score and the severity label are a function of total beds, total
\* staff, the four capability flags and whether the region has fewer than three
\* distinct specialties: regions equal in all of these get equal score and label.
C7_ScoreOnlyOfAggregates ==
    \A r1, r2 \in DesertRows :
        (SameBedsStaffFlags(r1, r2) /\ FewSpecialties(r1) = FewSpecialties(r2)) =>
            /\ r1.desert_score = r2.desert_score
            /\ r1.severity = r2.severity

C7_Witness ==
    \E r1, r2 \in DesertRows :
        /\ r1.region # r2.region
        /\ SameBedsStaffFlags(r1, r2)
        /\ FewSpecialties(r1) = FewSpecialties(r2)
        /\ r1.specialties # r2.specialties
        /\ r1.desert_score = r2.desert_score
        /\ r1.desert_score < 100

\* C8: every reported desert_score is an integer in [0,100], also for a region that
\* triggers every penalty rule at once.
C8_ScoreInRange ==
    \A r \in DesertRows : r.desert_score \in 0..100

C8_Witness ==
    \E r \in DesertRows :
        /\ r.total_beds < 100 /\ r.total_staff < 200
        /\ ~r.has_surgery /\ ~r.has_icu /\ ~r.has_ct_mri /\ ~r.has_blood_bank
        /\ FewSpecialties(r)
        /\ r.desert_score = 100

\* C9: the severity label follows the reported desert_score: Critical exactly when it
\* is >= 60, Moderate exactly when 40 <= it < 60, Adequate exactly when it is < 40.
C9_SeverityFollowsScore ==
    \A r \in DesertRows :
        /\ (r.severity = "Critical") <=> (r.desert_score >= 60)
        /\ (r.severity = "Moderate") <=> (r.desert_score >= 40 /\ r.desert_score < 60)
        /\ (r.severity = "Adequate") <=> (r.desert_score < 40)

C9_Witness ==
    \E r1, r2 \in DesertRows :
        /\ r1.desert_score = 60 /\ r1.severity = "Critical"
        /\ r2.desert_score = 40 /\ r2.severity = "Moderate"

\* the facilities of the store that lie in this region list the service "Surgery"
RegionListsSurgery(region) ==
    \E i \in 1..Len(db_facilities) :
        /\ db_facilities[i].region = region
        /\ \E k \in 1..Len(db_facilities[i].services) :
               db_facilities[i].services[k] = "Surgery"

\* r1 and r2 agree on every rule input but the surgery flag, which only r2 has
DifferOnlyInSurgery(r1, r2) ==
    /\ r1.total_beds = r2.total_beds
    /\ r1.total_staff = r2.total_staff
    /\ r1.has_icu = r2.has_icu
    /\ r1.has_ct_mri = r2.has_ct_mri
    /\ r1.has_blood_bank = r2.has_blood_bank
    /\ FewSpecialties(r1) = FewSpecialties(r2)
    /\ ~r1.has_surgery
    /\ r2.has_surgery

C10_FlagIsAnyFacilityListsSurgery ==
    \A r \in DesertRows : r.has_surgery <=> RegionListsSurgery(r.region)

\* C10 as stated: has_surgery is true exactly when a facility of the region lists the
\* service "Surgery", and a false flag contributes exactly +20 to the region's desert
\* score (a true flag 0): the score is 20 above that of a region equal in all else.
C10_SurgeryAddsTwenty ==
    /\ C10_FlagIsAnyFacilityListsSurgery
    /\ \A r1, r2 \in DesertRows :
           DifferOnlyInSurgery(r1, r2) => r1.desert_score = r2.desert_score + 20

\* C10 amended: has_surgery is true exactly when a facility of the region lists the
\* service "Surgery"; a false flag adds 20 to the score before it is clamped, so the
\* reported score is min(100, 20 + the score of a region equal in all else).
C10_SurgeryAddsTwentyBeforeClamp ==
    /\ C10_FlagIsAnyFacilityListsSurgery
    /\ \A r1, r2 \in DesertRows :
           DifferOnlyInSurgery(r1, r2) =>
               r1.desert_score = Min(100, r2.desert_score + 20)

C10_Witness ==
    \E r1, r2 \in DesertRows :
        /\ DifferOnlyInSurgery(r1, r2)
        /\ Len(r1.facilities) = 1
        /\ r1.total_beds = 50
        /\ r1.desert_score = r2.desert_score + 20

StepActions ==
    <<{"Query Analysis"}, {"Memory Retrieval"},
      {"Semantic Search (FAISS + sentence-transformers)"}, {"Context Assembly"},
      {"LLM Generation (Gemini 2.5 Flash)", "LLM Generation - Error"}>>

\* C11: every chat response with status 200 carries exactly five reasoning steps,
\* numbered 1 to 5 in that order: query analysis, memory retrieval, semantic
\* search, context assembly, generation (or its error step).
C11_FiveStepsInOrder ==
    \A slot \in Slots :
        LET r == reqs[slot]
            steps == ChatResponse(r).reasoning_steps
        IN  (Answered(r) /\ r.status = 200) =>
                /\ Len(steps) = 5
                /\ \A i \in 1..5 : steps[i].step = i /\ steps[i].action \in StepActions[i]

C11_Witness ==
    \E slot \in Slots :
        /\ Answered(reqs[slot])
        /\ reqs[slot].status = 200
        /\ reqs[slot].history_docs # <<>>
        /\ reqs[slot].search_results # <<>>
        /\ reqs[slot].llm = "failed"
        /\ Len(reqs[slot].reasoning_steps) = 5

\* positions of the index whose passage scores above 0 against the message
PositivePassages(message) ==
    IF IndexBuilt
    THEN {j \in 1..Len(faiss_index[1]) :
             InnerProduct(faiss_index[1][j], EncodeQuery(message)) > 0}
    ELSE {}

\* C12: the citations of a chat request are one per retrieved passage, in the rank
\* order of the retrieval (score descending); each carries the facility identifier
\* of its passage and that passage's score, which lies in [0, 1] (0..100 in the
\* model's hundredths); there are min(5, number of positively scored passages) of
\* them, so at most 5, and exactly 5 when the index holds 5 such passages.
C12_OneCitationPerPassage ==
    \A slot \in Slots :
        LET r == reqs[slot]
            cits == r.citations
            positive == PositivePassages(r.message)
        IN  (Loaded(r) /\ r.status # 500) =>
                /\ Len(cits) = Len(r.search_results)
                /\ Len(cits) = Min(5, Cardinality(positive))
                /\ \A i \in 1..Len(cits) :
                      /\ cits[i].source_id = r.search_results[i].facility_id
                      /\ cits[i].relevance_score = r.search_results[i].score
                      /\ cits[i].relevance_score >= 0 /\ cits[i].relevance_score <= 100
                      /\ cits[i].text_excerpt.facility_id = cits[i].source_id
                      /\ \E j \in positive :
                            /\ facility_ids[j] = cits[i].source_id
                            /\ InnerProduct(faiss_index[1][j], EncodeQuery(r.message))
                                  = cits[i].relevance_score
                /\ \A i \in 1..(Len(cits) - 1) :
                      cits[i].relevance_score >= cits[i + 1].relevance_score
                /\ \A i \in 1..Len(cits), k \in 1..Len(cits) :
                      i # k => cits[i].source_id # cits[k].source_id

C12_Witness ==
    \E slot \in Slots :
        /\ Answered(reqs[slot])
        /\ Cardinality(PositivePassages(reqs[slot].message)) > 5
        /\ Len(data_file) > Cardinality(PositivePassages(reqs[slot].message))
        /\ Len(ChatResponse(reqs[slot]).citations) = 5
        /\ reqs[slot].citations[1].relevance_score > reqs[slot].citations[5].relevance_score

\* C13: every chat response with status 200 has a non-null mlflow_run_id, whatever
\* the sequence or interleaving of chat requests.
C13_RunIdNeverNull ==
    \A slot \in Slots :
        (Answered(reqs[slot]) /\ reqs[slot].status = 200) =>
            ChatResponse(reqs[slot]).mlflow_run_id # NoRun

IndexedVectors == IF IndexBuilt THEN faiss_index[1] ELSE <<>>

\* C14: in every state a handler can observe, the index holds as many vectors as
\* there are passage texts and facility identifiers, and position i of the three
\* is one facility: text i is the passage synthesized from the facility of the
\* data file whose identifier is identifier i, and vector i is its embedding; a
\* search result pairs a passage with the identifier of its own facility.
C14_ParallelArraysAligned ==
    /\ Len(IndexedVectors) = Len(facility_texts)
    /\ Len(facility_texts) = Len(facility_ids)
    /\ \A i \in 1..Len(facility_ids) :
          /\ facility_texts[i].facility_id = facility_ids[i]
          /\ IndexedVectors[i] = EncodeText(facility_texts[i])
          /\ \E j \in 1..Len(data_file) :
                /\ data_file[j].facility_id = facility_ids[i]
                /\ FacilityText(data_file[j]) = facility_texts[i]
    /\ \A i \in 1..Len(search_out.results) :
          search_out.results[i].text.facility_id = search_out.results[i].facility_id

C14_Witness ==
    /\ IndexBuilt
    /\ Len(facility_ids) >= 2
    /\ facility_texts[1] # facility_texts[2]
    /\ search_out.called
    /\ Len(search_out.results) >= 2

StoredIds == {db_facilities[i].facility_id : i \in 1..Len(db_facilities)}

\* C16: after startup the set of indexed facility identifiers equals the set of
\* facility identifiers held in the document store, also when the store was
\* populated before this start.
C16_IndexRebuiltFromStore ==
    IndexBuilt => ToSet(facility_ids) = StoredIds

\* the chat requests whose insert_one completes in this step
Completing ==
    {slot \in Slots : /\ reqs[slot].kind = "chat"
                      /\ reqs[slot].pc = "persist"
                      /\ reqs'[slot].pc = "done"}

\* C17: conversation history is append-only: every step keeps the stored turns as
\* they are, in place; a step that completes a chat request adds exactly one turn,
\* the one of that request, with its session id, message, response, citations,
\* reasoning steps and timestamp; no other step adds a turn.
C17_HistoryAppendOnly ==
    [][/\ Len(db_chat_history') = Len(db_chat_history) + Cardinality(Completing)
       /\ SubSeq(db_chat_history', 1, Len(db_chat_history)) = db_chat_history
       /\ \A slot \in Completing :
             LET r == reqs[slot]
                 turn == db_chat_history'[Len(db_chat_history')]
             IN  /\ turn.session_id = r.session_id
                 /\ turn.message = r.message
                 /\ turn.response = r.response_text
                 /\ turn.citations = r.citations
                 /\ turn.reasoning_steps = r.reasoning_steps
                 /\ turn.created_at = r.created_at]_vars

C17_Witness ==
    /\ Len(db_chat_history) = 2
    /\ db_chat_history[1].session_id = db_chat_history[2].session_id
    /\ \A slot \in Slots : Answered(reqs[slot]) /\ reqs[slot].status = 200

TurnsOf(session_id) == SelectSeq(db_chat_history, LAMBDA d : d.session_id = session_id)

\* C18: fetching the history of session S answers only turns of S, in ascending
\* creation time; with chat requests served one after another these are the
\* stored turns of S (the first hundred) in the order the requests were made.
C18_HistoryFetchChronological ==
    [][resp' # resp =>
         LET body == resp'.body
             mine == TurnsOf(resp'.arg)
         IN  /\ \A i \in 1..Len(body) : body[i].session_id = resp'.arg
             /\ \A i \in 1..Len(body), j \in 1..Len(body) :
                   i < j => body[i].created_at <= body[j].created_at
             /\ body = SubSeq(mine, 1, Min(HistoryFetchLimit, Len(mine)))]_vars

C18_Witness ==
    /\ resp.op = "get_chat_history"
    /\ Len(resp.body) >= 2
    /\ \E i \in 1..Len(db_chat_history) :
          /\ db_chat_history[i].session_id # resp.arg
          /\ db_chat_history[i].created_at > resp.body[1].created_at
          /\ db_chat_history[i].created_at < resp.body[2].created_at

\* the order of the await points of chat_endpoint
ChatOrder ==
    {<<"idle", "history">>, <<"history", "facilities">>, <<"facilities", "generate">>,
     <<"generate", "persist">>, <<"persist", "done">>}

\* C19: a chat request goes through load history, search and citations, prompt
\* assembly, the generation call and the insert of its turn in that order; the
\* step that loads the history leaves the store as it is and reads only stored
\* turns, none of them the request's own (the store then holds exactly the turns
\* of the completed requests); the step that stores a turn is taken by a request
\* whose generation call has returned or failed.
C19_StepsInOrderPersistLast ==
    [][\A slot \in Slots :
          LET r == reqs[slot]
              q == reqs'[slot]
          IN  (q # r /\ q.kind = "chat") =>
                 /\ <<r.pc, q.pc>> \in ChatOrder
                 /\ r.pc = "history" =>
                       /\ db_chat_history' = db_chat_history
                       /\ Len(db_chat_history) =
                              Cardinality({s \in Slots : Answered(reqs[s])})
                       /\ ~Answered(r)
                       /\ \A i \in 1..Len(q.history_docs) :
                             \E j \in 1..Len(db_chat_history) :
                                 db_chat_history[j] = q.history_docs[i]
                       /\ q.citations = Citations(q.search_results)
                 /\ r.pc \in {"idle", "facilities"} =>
                       /\ db_chat_history' = db_chat_history
                       /\ q.llm = "none"
                 /\ r.pc = "generate" =>
                       /\ db_chat_history' = db_chat_history
                       /\ q.llm \in {"ok", "failed"}
                       /\ q.citations = r.citations
                       /\ q.history_docs = r.history_docs
                 /\ r.pc = "persist" =>
                       /\ r.llm \in {"ok", "failed"}
                       /\ db_chat_history' = Append(db_chat_history, Turn(r))]_vars

C19_Witness ==
    /\ \A slot \in Slots : Answered(reqs[slot])
    /\ Len(db_chat_history) = 2
    /\ \E slot \in Slots :
          /\ Len(reqs[slot].history_docs) = 1
          /\ reqs[slot].history_docs[1] = db_chat_history[1]
          /\ Turn(reqs[slot]) = db_chat_history[2]

\* the requests whose generation call has been issued and has not answered yet
AwaitingGeneration(r) == r.pc \in {"generate", "translate", "plan_generate"}

\* C20: within one chat, text2sql or planning request the generation endpoint is
\* called at most once: a request that awaits the answer, or has had it, has made
\* exactly one call, also when the answer was a failure; no step of a request
\* whose call has failed issues another call.
C20_GenerationCalledAtMostOnce ==
    [][\A slot \in Slots :
          LET r == reqs[slot]
              q == reqs'[slot]
          IN  /\ q.llm_calls <= 1
              /\ (AwaitingGeneration(q) \/ q.llm # "none") => q.llm_calls = 1
              /\ (r.llm \in {"failed", "error", "budget"} /\ q.kind = r.kind) =>
                     (q.llm_calls = r.llm_calls /\ ~AwaitingGeneration(q))]_vars

C20_Witness ==
    /\ reqs[1].kind = "chat" /\ reqs[1].pc = "done" /\ reqs[1].llm = "failed"
    /\ reqs[1].llm_calls = 1
    /\ reqs[2].kind = "plan" /\ reqs[2].pc = "done" /\ reqs[2].status = 429
    /\ reqs[2].llm_calls = 1

\* C15: once the index is built, no step of a chat, text2sql, planning, facility,
\* analysis, history, login, me, logout or health request changes the vector
\* index, the passage texts or the facility identifiers.
C15_HandlersLeaveIndexAlone ==
    [][IndexBuilt =>
          /\ faiss_index' = faiss_index
          /\ facility_texts' = facility_texts
          /\ facility_ids' = facility_ids]_vars

C15_Witness ==
    /\ IndexBuilt
    /\ Len(facility_ids) = MaxDocs
    /\ db_plans # <<>>
    /\ db_user_sessions # <<>>
    /\ resp.op = "health"
    /\ resp.body.faiss_index_size = MaxDocs

\* C21: a text2sql request whose generation output is not JSON ends with 422 and
\* the advice to rephrase, any other failure of the translation ends with 500,
\* and in both cases the request ends at that step with no result rows: the store
\* is queried, and rows are returned, only for a request whose output was parsed
\* into a query object, and those rows are the rows of that query.
C21_UnparsableIs422NothingExecuted ==
    [][\A slot \in Slots :
          LET r == reqs[slot]
              q == reqs'[slot]
          IN  (q.kind = "text2sql" /\ q # r) =>
                 /\ q.llm = "bad_json" =>
                       /\ r.pc = "translate" /\ q.pc = "done" /\ q.status = 422
                       /\ q.response_text = RephraseDetail /\ q.results = <<>>
                 /\ q.llm \in {"error", "not_object"} =>
                       /\ r.pc = "translate" /\ q.pc = "done" /\ q.status = 500
                       /\ q.response_text = Text2SqlErrorDetail /\ q.results = <<>>
                 /\ (q.pc = "execute" \/ r.pc = "execute") =>
                       /\ q.llm = "ok"
                       /\ q.query_spec \in QuerySpecs
                 /\ r.pc = "execute" =>
                       \E tie \in TieBreaks :
                           q.results = RunQuery(db_facilities, q.query_spec, tie)]_vars

C21_Witness ==
    /\ reqs[1].kind = "text2sql" /\ reqs[1].pc = "done" /\ reqs[1].llm = "bad_json"
    /\ reqs[1].status = 422
    /\ reqs[2].kind = "text2sql" /\ reqs[2].pc = "done" /\ reqs[2].status = 200
    /\ Len(reqs[2].results) >= 2

PlanIds == {db_plans[i].plan_id : i \in 1..Len(db_plans)}

\* C22: a planning request stores a plan exactly when its generation call
\* succeeded: the request then ends with 200 in the step that appends its plan
\* document, whose identifier no stored plan carries; a request whose call
\* failed ends with 429 for a budget error and with 500 otherwise, in a step that
\* leaves the plans as they are; and no other step changes the stored plans.
C22_PlanStoredIffGenerated ==
    [][/\ \A slot \in Slots :
            LET r == reqs[slot]
                q == reqs'[slot]
            IN  (q.kind = "plan" /\ q # r /\ q.pc = "done") =>
                   /\ q.llm # "none"
                   /\ q.llm = "ok" =>
                         /\ q.status = 200
                         /\ PlanId(q.plan_id) \notin PlanIds
                         /\ db_plans' = Append(db_plans, PlanDoc(q))
                   /\ q.llm = "budget" => (q.status = 429 /\ db_plans' = db_plans)
                   /\ q.llm = "failed" => (q.status = 500 /\ db_plans' = db_plans)
       /\ db_plans' # db_plans =>
             \E slot \in Slots :
                 /\ reqs'[slot].kind = "plan" /\ reqs'[slot].pc = "done"
                 /\ reqs[slot].pc = "plan_store" /\ reqs'[slot].llm = "ok"]_vars

C22_Witness ==
    /\ reqs[1].kind = "plan" /\ reqs[1].pc = "done" /\ reqs[1].status = 200
    /\ reqs[2].kind = "plan" /\ reqs[2].pc = "done" /\ reqs[2].status = 429
    /\ Len(db_plans) = 1
    /\ db_plans[1] = PlanDoc(reqs[1])

\* C23: a chat request that supplies a session id is answered with that id and
\* its turn is stored under it; a request without one (none, or the empty text)
\* gets a generated id that no stored turn carries, answered and stored alike;
\* and a request that presents an id under which turns are stored loads the
\* latest of them as the last turn of its history.
C23_SessionIdEchoedOrGenerated ==
    [][\A slot \in Slots :
          LET r == reqs[slot]
              q == reqs'[slot]
          IN  (q.kind = "chat" /\ q # r) =>
                 /\ q.session_in \notin {NoSession, EmptySession} =>
                       q.session_id = q.session_in
                 /\ (q.session_in \in {NoSession, EmptySession}
                        /\ r.pc \in {"idle", "done"}) =>
                       /\ q.session_id[1] = "chat"
                       /\ q.session_id \notin StoredSessions
                 /\ Loaded(q) /\ PriorTurns(r) # <<>> /\ r.pc = "history" =>
                       /\ q.history_docs # <<>>
                       /\ q.history_docs[Len(q.history_docs)] =
                              PriorTurns(r)[Len(PriorTurns(r))]
                 /\ Answered(q) =>
                       /\ ChatResponse(q).session_id = q.session_id
                       /\ db_chat_history'[Len(db_chat_history')].session_id = q.session_id
                       /\ db_chat_history'[Len(db_chat_history')].message = q.message]_vars

C23_Witness ==
    /\ Answered(reqs[1])
    /\ reqs[1].session_in = GeneratedSession(1)
    /\ Len(db_chat_history) = 2
    /\ db_chat_history[1].session_id = GeneratedSession(1)
    /\ reqs[1].history_docs = <<db_chat_history[1]>>
    /\ db_chat_history[2].session_id = GeneratedSession(1)

\* C24: the facility collection is written only by a start that finds it empty,
\* which makes it the corpus of the data file; every other step, a later start
\* and every request included, leaves it as it is, so that once a start is over
\* it holds the corpus, and never two records of one facility.
C24_CorpusLoadedOnce ==
    [][/\ \/ db_facilities' = db_facilities
          \/ /\ db_facilities = <<>>
             /\ ~IndexBuilt
             /\ db_facilities' = data_file
       /\ IndexBuilt' => db_facilities' = data_file
       /\ \A i \in 1..Len(db_facilities'), j \in 1..Len(db_facilities') :
             db_facilities'[i].facility_id = db_facilities'[j].facility_id => i = j]_vars

C24_Witness ==
    /\ IndexBuilt
    /\ \A slot \in Slots : reqs[slot].pc = "idle"
    /\ db_chat_history # <<>>
    /\ db_chat_history[1].citations # <<>>
    /\ db_plans # <<>>
    /\ Len(data_file) = MaxFacilities
    /\ db_facilities = data_file

\* the run that receives what is logged now: the top of the stack of active runs
ActiveRun == IF mlflow.active = <<>> THEN NoRun ELSE mlflow.active[Len(mlflow.active)]

\* C25: when a chat or text2sql request finishes, on any path, the run it started
\* is no longer active, and with every request finished no run is active; and
\* whenever a request that is being served logs a step, the active run is the one
\* it started, or there is none.
C25_RunsEndWithTheirRequest ==
    [][\A slot \in Slots :
          LET r == reqs[slot]
              q == reqs'[slot]
          IN  (q # r /\ q.kind \in {"chat", "text2sql"}) =>
                 /\ q.pc = "done" =>
                       /\ \A i \in 1..Len(mlflow'.active) : mlflow'.active[i] # q.run_id
                       /\ (\A other \in Slots : reqs'[other].pc \in {"idle", "done"}) =>
                              mlflow'.active = <<>>
                 /\ (r.pc \in {"history", "generate", "persist", "execute"}
                        /\ mlflow' # mlflow) =>
                       ActiveRun \in {NoRun, r.run_id}]_vars

\* C26: two chat requests of one session, overlapping or not, once both are
\* answered have each their turn in the store exactly once: the store holds
\* these two turns and nothing else, in the order the inserts completed; while
\* one of them is still being served the store holds the other's turn alone.
C26_OverlappingTurnsBothStored ==
    (/\ reqs[1].kind = "chat" /\ reqs[2].kind = "chat"
     /\ reqs[1].session_id = reqs[2].session_id) =>
        /\ (Answered(reqs[1]) /\ Answered(reqs[2])) =>
               \/ db_chat_history = <<Turn(reqs[1]), Turn(reqs[2])>>
               \/ db_chat_history = <<Turn(reqs[2]), Turn(reqs[1])>>
        /\ (Answered(reqs[1]) /\ ~Answered(reqs[2])) => db_chat_history = <<Turn(reqs[1])>>
        /\ (Answered(reqs[2]) /\ ~Answered(reqs[1])) => db_chat_history = <<Turn(reqs[2])>>

\* both answered, and neither loaded the other's turn
C26_Witness ==
    /\ Answered(reqs[1]) /\ Answered(reqs[2])
    /\ reqs[1].session_id = reqs[2].session_id
    /\ reqs[1].history_docs = <<>>
    /\ reqs[2].history_docs = <<>>
    /\ Len(db_chat_history) = 2

\* C27: after a logout request made by a client authenticated with session token T,
\* every later /api/auth/me request presenting T, as a cookie or as a Bearer header,
\* is answered 401.
C27_LoggedOutTokenRejected ==
    (/\ reqs[1].kind = "logout" /\ reqs[1].pc = "done"
     /\ reqs[2].kind = "me" /\ reqs[2].pc = "done"
     /\ reqs[2].token = LoggedOutToken(reqs[1])) => reqs[2].status = 401

\* the same for a logout that carried the token in its cookie
C27_CookieLogoutRejected ==
    (/\ reqs[1].kind = "logout" /\ reqs[1].pc = "done" /\ reqs[1].token # NoToken
     /\ reqs[2].kind = "me" /\ reqs[2].pc = "done"
     /\ reqs[2].token = reqs[1].token) => reqs[2].status = 401

\* C28: get_current_user returns a user only when the presented token (the cookie,
\* else the Bearer header) matches a stored session that has not expired and whose
\* user record exists, and then returns that user; without a token, with a token
\* no session holds, with an expired session and with a session whose user is
\* missing the answer is 401 and carries no user.
PresentedToken(q) == IF q.cookie # NoToken THEN q.cookie ELSE q.bearer

MatchingSessions(T) ==
    {i \in 1..Len(db_user_sessions) : db_user_sessions[i].session_token = T}

C28_UserOnlyForLiveSession ==
    \A slot \in Slots :
        LET q == reqs[slot]
            T == PresentedToken(q)
            live == {i \in MatchingSessions(T) :
                        /\ db_user_sessions[i].expires_at >= now
                        /\ \E j \in 1..Len(db_users) :
                              db_users[j].user_id = db_user_sessions[i].user_id}
        IN  (q.kind = "me" /\ q.pc = "done") =>
                /\ q.status \in {200, 401}
                /\ q.status = 200 =>
                       /\ T # NoToken
                       /\ \E i \in live : /\ q.user.user_id = db_user_sessions[i].user_id
                                          /\ \E j \in 1..Len(db_users) : db_users[j] = q.user
                /\ q.status = 401 => q.user = NoUser
                /\ (T = NoToken \/ live = {}) => q.status = 401

\* an expired session was presented and refused, its user being there
C28_Witness ==
    /\ reqs[2].kind = "me" /\ reqs[2].pc = "done" /\ reqs[2].status = 401
    /\ reqs[2].cookie = NoToken
    /\ \E i \in MatchingSessions(reqs[2].bearer) :
          /\ db_user_sessions[i].expires_at < now
          /\ \E j \in 1..Len(db_users) :
                db_users[j].user_id = db_user_sessions[i].user_id

\* C29: after any sequence or interleaving of create_session requests the user
\* store holds at most one user record per email address, a login with a known
\* email reuses the stored user_id, and every session record refers to an existing
\* user.
C29_OneUserPerEmail ==
    /\ \A i, j \in 1..Len(db_users) : db_users[i].email = db_users[j].email => i = j
    /\ \A i \in 1..Len(db_user_sessions) :
          \E j \in 1..Len(db_users) : db_users[j].user_id = db_user_sessions[i].user_id

\* the part that holds: every session record refers to an existing user
C29_SessionsHaveUsers ==
    \A i \in 1..Len(db_user_sessions) :
        \E j \in 1..Len(db_users) : db_users[j].user_id = db_user_sessions[i].user_id

\* C30: for every query specification the translation produces, a successful
\* text-to-query response holds at most 50 rows, at most 20 when the specification
\* gives no limit, and never more than the limit asked for or than the documents
\* that match; result_count is the number of rows; the facilities collection is
\* left as it was.
MatchingCount(q) ==
    Cardinality({i \in 1..Len(db_facilities) :
                    q.query_spec.filter = <<>> \/ db_facilities[i].region = q.query_spec.filter[1]})

C30_RowsWithinLimits ==
    /\ [](\A slot \in Slots :
            LET q == reqs[slot]
            IN  (q.kind = "text2sql" /\ q.pc = "done" /\ q.status = 200) =>
                   /\ Len(q.results) <= T2sMaxLimit
                   /\ q.query_spec.limit = <<>> => Len(q.results) <= T2sDefaultLimit
                   /\ q.query_spec.limit # <<>> => Len(q.results) <= q.query_spec.limit[1]
                   /\ Len(q.results) <= MatchingCount(q)
                   /\ \/ Len(q.results) = MatchingCount(q)
                      \/ Len(q.results) = T2sMaxLimit
                      \/ q.query_spec.limit = <<>> /\ Len(q.results) = T2sDefaultLimit
                      \/ q.query_spec.limit # <<>> /\ Len(q.results) = q.query_spec.limit[1]
                   /\ Text2SQLResponse(q).result_count = Len(Text2SQLResponse(q).results))
    /\ [][db_facilities' = db_facilities]_vars

\* more than 50 documents match, more than 50 were asked for, 50 came back
C30_Witness ==
    /\ reqs[1].kind = "text2sql" /\ reqs[1].pc = "done" /\ reqs[1].status = 200
    /\ reqs[1].query_spec.limit = <<T2sMaxLimit + 1>>
    /\ MatchingCount(reqs[1]) > T2sMaxLimit
    /\ Len(reqs[1].results) = T2sMaxLimit

=============================================================================
